---- MODULE Spec2Model ----
(***************************************************************************)
(* Segmentation of a text by logical connectors (hash.py), the word-length *)
(* indicators built on it and their per-response summaries.                *)
(*                                                                         *)
(* A text is a sequence of one-character strings.  Positions are 1-based:  *)
(* position p of the model is offset p-1 of the Python string.  A regex    *)
(* match is the pair (start, end) with end exclusive, as match.start() + 1 *)
(* and match.end() + 1.                                                    *)
(***************************************************************************)
EXTENDS Integers, Sequences, FiniteSets, TLC

VARIABLES
    pc,                 \* position of the call under analysis
    text,               \* argument text of the hash.py and analyses.py entry points
    connectors,         \* keys of the connector dictionary, in insertion order
    segmentation_mode,  \* "connecteurs" or "connecteurs_et_ponctuation"
    segments,           \* value returned by split_segments_by_connectors
    lengths,            \* value returned by compute_segment_word_lengths
    longueurs,          \* argument of resumer_longueurs_segments
    seuil_segment_court,\* argument of resumer_longueurs_segments
    resume,             \* value returned by resumer_longueurs_segments
    rows,               \* rows of the filtered dataframe
    idx,                \* index of the next row of the iterrows() loop
    lignes,             \* records appended by the loop
    reponses_ignorees,  \* counter of ignored rows
    uploaded_file,          \* file given to the uploader of render_dictionary_selector
    default_file,           \* content of dictionnaires/connecteurs.json
    dictionary_choice,      \* st.session_state of the dictionary choice
    custom_connectors_dict, \* st.session_state of the custom dictionary
    dictionary_label,       \* st.session_state of the dictionary label
    selector_renders,       \* reruns of the script after the first render of the selector
    st_error,               \* messages given to st.error by the last render
    available_connectors,   \* outcome of load_available_connectors
    longueurs_a,            \* first sample of calculer_test_ks and p_value_par_permutation
    longueurs_b,            \* second sample
    resultat,               \* value returned by calculer_test_ks
    n_permutations,         \* argument of p_value_par_permutation
    random_state,           \* seed of p_value_par_permutation, or None
    p_values_permutation,   \* values returned by the runs of p_value_par_permutation
    D_permutations,         \* statistics of the permutations drawn by the last run
    donnees_par_modalite,   \* dict from modality to sample of the pairwise and global tests
    methode_correction,     \* correction method, or None
    p_values_ttest,         \* p-values of ttest_ind for the pairs of modalities
    resultats_df,           \* outcome of the test under analysis
    echantillon_a,          \* valeurs_a of effectuer_test_mann_whitney
    echantillon_b,          \* valeurs_b of effectuer_test_mann_whitney
    indicateurs_reponses,   \* rows of the dataframe given to construire_tableau_apparie
    methode_agregation,     \* argument of construire_tableau_apparie
    sortie_tableau,         \* tuple returned by construire_tableau_apparie
    resultat_friedman,      \* value returned by calculer_statistique_friedman
    p_values_wilcoxon,      \* p-values of wilcoxon for the pairs of models
    cache,                  \* the entry lru_cache holds for _get_spacy_tokenizer (0 = empty)
    spacy_loads,            \* number of spacy.load calls that returned a pipeline
    model_installed,        \* whether fr_core_news_md can be loaded
    thread_pc,              \* position of each thread inside the function it runs
    thread_tokenizer,       \* tokenizer each thread last obtained (0 = none)
    thread_render,          \* arguments and choices of the render of rendu_hash each thread runs
    thread_calls,           \* renders of rendu_hash each thread has started
    annotated_html,         \* value returned by annotate_connectors_html, as a sequence of pieces
    stats_df,               \* rows of the dataframe returned by count_connectors
    tokenization_mode,      \* argument tokenization_mode of the hash.py entry points
    segment_entries         \* value returned by segments_with_word_lengths

segVars == <<text, connectors, segmentation_mode, segments, lengths>>
resVars == <<longueurs, seuil_segment_court, resume>>
rowVars == <<rows, idx, lignes, reponses_ignorees>>
loadVars == <<uploaded_file, default_file, dictionary_choice,
             custom_connectors_dict, dictionary_label, selector_renders,
             st_error, available_connectors>>

ksVars == <<longueurs_a, longueurs_b, resultat, n_permutations, random_state,
           p_values_permutation, D_permutations>>

pairVars == <<donnees_par_modalite, methode_correction, p_values_ttest, resultats_df>>

mwVars == <<echantillon_a, echantillon_b>>

friedVars == <<indicateurs_reponses, methode_agregation, sortie_tableau, resultat_friedman, p_values_wilcoxon>>

spacyVars == <<cache, spacy_loads, model_installed, thread_pc, thread_tokenizer,
              thread_render, thread_calls>>

annotVars == <<annotated_html, stats_df>>

lenVars == <<tokenization_mode, segment_entries>>

vars == <<pc, segVars, resVars, rowVars, loadVars, ksVars, pairVars, mwVars, friedVars, spacyVars, annotVars, lenVars>>

(***************************************************************************)
(* Bounds of the explored inputs.                                          *)
(***************************************************************************)
MaxChunks == 4

(***************************************************************************)
(* Character classes of Python's re module, restricted to the characters   *)
(* the model uses.                                                         *)
(***************************************************************************)
\* \w
WordChars == {"a", "b", "n", "A", "B", "_", "x", "2", "7"}
\* the characters for which str.isalnum() holds
AlnumChars == WordChars \ {"_"}
\* \s, and the characters str.strip() removes
SpaceChars == {" ", "\t", "\n", "\r"}
\* the class [\.!?;:] of _build_boundary_pattern
PunctChars == {".", "!", "?", ";", ":"}
\* the line terminators str.splitlines() knows among the modelled characters
LineBreakChars == {"\n", "\r"}

\* Python's None where a string is expected
None == <<"None">>
\* Python's None where a compiled pattern is expected
NoPattern == [alts |-> <<>>, punctuation |-> FALSE]
\* Python's None where a match object is expected
NoMatch == [start |-> 0, end |-> 0]
\* Python's None where a dict of indicators is expected
NoResume == [kind |-> "None"]
\* the exception raised by a float division by zero
ZeroDivisionError == [kind |-> "ZeroDivisionError"]
\* the float 0.0
Zero == [num |-> 0, den |-> 1]

\* no file: nothing uploaded, or a call that reads no dictionary
NoFile == [kind |-> "None"]
\* no dictionary in the session state, no dictionary returned yet
NoDict == [kind |-> "None"]
\* no label in the session state
NoLabel == "None"

\* the dictionary selector was never rendered
LoadIdle ==
    /\ uploaded_file = NoFile
    /\ default_file = NoFile
    /\ dictionary_choice = "default"
    /\ custom_connectors_dict = NoDict
    /\ dictionary_label = NoLabel
    /\ selector_renders = 0
    /\ st_error = <<>>
    /\ available_connectors = NoDict

\* Python's None where a result object is expected
NoResultat == [kind |-> "None"]
\* Python's None where a seed is expected (a seed is a natural number)
NoSeed == 0 - 1

\* no Kolmogorov-Smirnov test under way
KSIdle ==
    /\ longueurs_a = <<>>
    /\ longueurs_b = <<>>
    /\ resultat = NoResultat
    /\ n_permutations = 0
    /\ random_state = NoSeed
    /\ p_values_permutation = <<>>
    /\ D_permutations = <<>>

\* Python's None where a correction method is expected
NoMethod == "None"

\* no pairwise or global test under way
PairIdle ==
    /\ donnees_par_modalite = <<>>
    /\ methode_correction = NoMethod
    /\ p_values_ttest = <<>>
    /\ resultats_df = NoResultat

\* no Mann-Whitney test called
MWIdle ==
    /\ echantillon_a = <<>>
    /\ echantillon_b = <<>>

\* no paired table built
FriedIdle ==
    /\ indicateurs_reponses = <<>>
    /\ methode_agregation = "moyenne"
    /\ sortie_tableau = NoResultat
    /\ resultat_friedman = NoResultat
    /\ p_values_wilcoxon = <<>>

\* no call of segments_with_word_lengths made
LengthsIdle ==
    /\ tokenization_mode = "regex"
    /\ segment_entries = NoResultat

\* no annotation or count of the connectors made
AnnotIdle ==
    /\ annotated_html = NoResultat
    /\ stats_df = NoResultat

\* no thread renders the tab and nothing was loaded
SpacyIdle ==
    /\ cache = 0
    /\ spacy_loads = 0
    /\ model_installed = FALSE
    /\ thread_pc = <<>>
    /\ thread_tokenizer = <<>>
    /\ thread_render = <<>>
    /\ thread_calls = <<>>

\* no segmentation, summary or loop over the rows under way
HashIdle ==
    /\ text = <<>>
    /\ connectors = <<>>
    /\ segmentation_mode = "connecteurs"
    /\ segments = <<>>
    /\ lengths = <<>>
    /\ longueurs = <<>>
    /\ seuil_segment_court = 0
    /\ resume = NoResume
    /\ rows = <<>>
    /\ idx = 1
    /\ lignes = <<>>
    /\ reponses_ignorees = 0

\* case folding applied by re.IGNORECASE
Lower(c) ==
    CASE c = "A" -> "a"
      [] c = "B" -> "b"
      [] OTHER -> c

Min(S) == CHOOSE m \in S : \A o \in S : m <= o

RECURSIVE Flatten(_)
Flatten(ss) ==
    IF ss = <<>> THEN <<>> ELSE Head(ss) \o Flatten(Tail(ss))

\* s[a..b-1] of Python, with 1-based a and exclusive b
Slice(s, a, b) == SubSeq(s, a, b - 1)

IsBlank(s) == \A i \in 1..Len(s) : s[i] \in SpaceChars

\* str.lstrip()
LStrip(s) ==
    LET nonBlank == {i \in 1..Len(s) : s[i] \notin SpaceChars}
    IN  IF nonBlank = {} THEN <<>> ELSE Slice(s, Min(nonBlank), Len(s) + 1)

\* str.strip()
Strip(s) ==
    LET nonBlank == {i \in 1..Len(s) : s[i] \notin SpaceChars}
    IN  IF nonBlank = {} THEN <<>>
        ELSE Slice(s, Min(nonBlank),
                   (CHOOSE m \in nonBlank : \A o \in nonBlank : o <= m) + 1)

\* str.splitlines(): the lines without their terminators (\n, \r, \r\n);
\* a final terminator opens no further line
RECURSIVE SplitLines(_)
SplitLines(s) ==
    IF s = <<>> THEN <<>>
    ELSE LET breaks == {i \in 1..Len(s) : s[i] \in LineBreakChars}
         IN  IF breaks = {} THEN <<s>>
             ELSE LET i == Min(breaks)
                      n == IF s[i] = "\r" /\ i < Len(s) /\ s[i + 1] = "\n"
                           THEN 2 ELSE 1
                  IN  <<Slice(s, 1, i)>>
                          \o SplitLines(Slice(s, i + n, Len(s) + 1))

\* "\n".join(lines)
RECURSIVE JoinLines(_)
JoinLines(lines) ==
    IF lines = <<>> THEN <<>>
    ELSE IF Len(lines) = 1 THEN lines[1]
    ELSE lines[1] \o <<"\n">> \o JoinLines(Tail(lines))

\* METADATA_LINE_PATTERN.match(line): ^\s*\*{4}
METADATA_LINE_PATTERN(line) ==
    LET first == LStrip(line)
    IN  /\ Len(first) >= 4
        /\ \A i \in 1..4 : first[i] = "*"

_remove_metadata_lines(t) ==
    IF t = <<>> THEN t
    ELSE LET lines == SplitLines(t)
             cleaned == SelectSeq(lines, LAMBDA l : ~METADATA_LINE_PATTERN(l))
         IN  IF Len(cleaned) = Len(lines) THEN t
             ELSE LStrip(JoinLines(cleaned))

(***************************************************************************)
(* Regular expressions.  A connector regex is the escaped key with or      *)
(* without \b on both sides; a pattern is the ordered alternation of such  *)
(* regexes, optionally followed by the alternative [\.!?;:]+.              *)
(***************************************************************************)
IsWordAt(s, i) == i \in 1..Len(s) /\ s[i] \in WordChars

\* \b before position p of s
WordBoundary(s, p) == IsWordAt(s, p - 1) # IsWordAt(s, p)

_wrap_connector_regex(key) ==
    [literal |-> key,
     word_bounded |-> \E i \in 1..Len(key) : key[i] \in WordChars]

\* sorted(cleaned, key=len, reverse=True): stable, longest first
RECURSIVE SortedByLenDesc(_, _)
SortedByLenDesc(keys, n) ==
    IF n = 0 THEN <<>>
    ELSE SelectSeq(keys, LAMBDA k : Len(k) = n) \o SortedByLenDesc(keys, n - 1)

MaxKeyLen(keys) ==
    IF keys = <<>> THEN 0
    ELSE CHOOSE n \in {Len(keys[i]) : i \in 1..Len(keys)} :
             \A i \in 1..Len(keys) : Len(keys[i]) <= n

\* _build_connector_pattern with the keys left in insertion order
build_connector_pattern_unsorted(conn) ==
    LET cleaned == SelectSeq(conn, LAMBDA key : key # <<>>)
    IN  IF cleaned = <<>> THEN NoPattern
        ELSE [alts |-> [i \in 1..Len(cleaned) |-> _wrap_connector_regex(cleaned[i])],
              punctuation |-> FALSE]

_build_connector_pattern(conn) ==
    LET cleaned == SelectSeq(conn, LAMBDA key : key # <<>>)
    IN  IF cleaned = <<>> THEN NoPattern
        ELSE LET sorted_keys == SortedByLenDesc(cleaned, MaxKeyLen(cleaned))
             IN  [alts |-> [i \in 1..Len(sorted_keys) |->
                               _wrap_connector_regex(sorted_keys[i])],
                  punctuation |-> FALSE]

_build_boundary_pattern(conn, include_punctuation, connector_pattern) ==
    LET cp == IF connector_pattern # NoPattern THEN connector_pattern
              ELSE _build_connector_pattern(conn)
    IN  IF cp = NoPattern /\ ~include_punctuation THEN NoPattern
        ELSE IF cp = NoPattern THEN [alts |-> <<>>, punctuation |-> TRUE]
        ELSE IF ~include_punctuation THEN cp
        ELSE [alts |-> cp.alts, punctuation |-> TRUE]

\* end (exclusive) of the match of one connector regex at position p, 0 if none
MatchAltAt(s, alt, p) ==
    LET k == alt.literal
        e == p + Len(k)
    IN  IF /\ e <= Len(s) + 1
           /\ \A i \in 1..Len(k) : Lower(s[p + i - 1]) = Lower(k[i])
           /\ alt.word_bounded => (WordBoundary(s, p) /\ WordBoundary(s, e))
        THEN e ELSE 0

\* end of the greedy match of [\.!?;:]+ at position p, 0 if none
MatchPunctAt(s, p) ==
    IF p > Len(s) \/ s[p] \notin PunctChars THEN 0
    ELSE Min({e \in (p + 1)..(Len(s) + 1) :
                 e = Len(s) + 1 \/ s[e] \notin PunctChars})

\* end of the match of the pattern at position p, 0 if none: the first
\* alternative that matches wins, the punctuation class comes last
MatchAt(s, pattern, p) ==
    LET hits == {i \in 1..Len(pattern.alts) : MatchAltAt(s, pattern.alts[i], p) # 0}
    IN  IF hits # {} THEN MatchAltAt(s, pattern.alts[Min(hits)], p)
        ELSE IF pattern.punctuation THEN MatchPunctAt(s, p)
        ELSE 0

\* pattern.search(s, pos): the leftmost match from position p on, or None
Search(s, pattern, p) ==
    LET starts == {q \in p..Len(s) : MatchAt(s, pattern, q) # 0}
    IN  IF starts = {} THEN NoMatch
        ELSE [start |-> Min(starts), end |-> MatchAt(s, pattern, Min(starts))]

\* pattern.finditer(s): the successive non-overlapping matches
RECURSIVE FindIter(_, _, _)
FindIter(s, pattern, p) ==
    LET m == Search(s, pattern, p)
    IN  IF m = NoMatch THEN <<>>
        ELSE <<m>> \o FindIter(s, pattern, m.end)

\* pattern.fullmatch(s) is not None
FullMatch(s, pattern) ==
    \/ \E i \in 1..Len(pattern.alts) :
           MatchAltAt(s, pattern.alts[i], 1) = Len(s) + 1
    \/ pattern.punctuation /\ s # <<>> /\ MatchPunctAt(s, 1) = Len(s) + 1

_is_connector(boundary, connector_pattern) ==
    IF boundary = None \/ boundary = <<>> \/ connector_pattern = NoPattern
    THEN FALSE
    ELSE FullMatch(boundary, connector_pattern)

\* the for loop of _segments_with_boundaries from match number i on
RECURSIVE SegmentsLoop(_, _, _, _, _, _)
SegmentsLoop(t, matches, connector_pattern, i, last_end, previous_connector) ==
    IF i > Len(matches)
    THEN LET trailing == Slice(t, last_end, Len(t) + 1)
         IN  IF ~IsBlank(trailing) /\ _is_connector(previous_connector, connector_pattern)
             THEN << <<trailing, previous_connector, None>> >>
             ELSE <<>>
    ELSE LET match == matches[i]
             segment == Slice(t, last_end, match.start)
             next_connector == Slice(t, match.start, match.end)
             previous_is_connector == _is_connector(previous_connector, connector_pattern)
             next_is_connector == _is_connector(next_connector, connector_pattern)
             kept == IF ~IsBlank(segment) /\ (previous_is_connector \/ next_is_connector)
                     THEN << <<segment, previous_connector, next_connector>> >>
                     ELSE <<>>
         IN  kept \o SegmentsLoop(t, matches, connector_pattern, i + 1,
                                  match.end, next_connector)

_segments_with_boundaries(t, pattern, connector_pattern) ==
    SegmentsLoop(t, FindIter(t, pattern, 1), connector_pattern, 1, 1, None)

\* split_segments_by_connectors without the early return on a text that holds
\* no connector
split_without_connector_search(t0, conn, mode) ==
    IF t0 = <<>> THEN <<>>
    ELSE LET t == _remove_metadata_lines(t0)
             connector_pattern == _build_connector_pattern(conn)
         IN  IF connector_pattern = NoPattern THEN <<>>
             ELSE LET swb == _segments_with_boundaries(
                                 t,
                                 _build_boundary_pattern(
                                     conn, mode = "connecteurs_et_ponctuation",
                                     connector_pattern),
                                 connector_pattern)
                  IN  [i \in 1..Len(swb) |-> swb[i][1]]

\* split_segments_by_connectors without the early return on an empty text
split_without_empty_text_guard(t0, conn, mode) ==
    LET t == _remove_metadata_lines(t0)
        connector_pattern == _build_connector_pattern(conn)
    IN  IF connector_pattern = NoPattern THEN <<>>
        ELSE IF Search(t, connector_pattern, 1) = NoMatch THEN <<t>>
        ELSE LET swb == _segments_with_boundaries(
                            t,
                            _build_boundary_pattern(
                                conn, mode = "connecteurs_et_ponctuation",
                                connector_pattern),
                            connector_pattern)
             IN  [i \in 1..Len(swb) |-> swb[i][1]]

split_segments_by_connectors(t0, conn, mode) ==
    IF t0 = <<>> THEN <<>>
    ELSE LET t == _remove_metadata_lines(t0)
             connector_pattern == _build_connector_pattern(conn)
         IN  IF connector_pattern = NoPattern THEN <<>>
             ELSE IF Search(t, connector_pattern, 1) = NoMatch THEN <<t>>
             ELSE LET include_punctuation == (mode = "connecteurs_et_ponctuation")
                      pattern == _build_boundary_pattern(conn, include_punctuation,
                                                         connector_pattern)
                  IN  IF pattern = NoPattern THEN <<>>
                      ELSE LET swb == _segments_with_boundaries(t, pattern,
                                                                connector_pattern)
                           IN  [i \in 1..Len(swb) |-> swb[i][1]]

\* re.findall(r"\b\w+\b", s): the maximal runs of word characters
_tokenize_regex(s) ==
    LET starts == {i \in 1..Len(s) : IsWordAt(s, i) /\ ~IsWordAt(s, i - 1)}
        EndOf(i) == Min({e \in (i + 1)..(Len(s) + 1) : ~IsWordAt(s, e)})
        Nth(n) == CHOOSE i \in starts : Cardinality({j \in starts : j < i}) = n - 1
    IN  [n \in 1..Cardinality(starts) |-> Slice(s, Nth(n), EndOf(Nth(n)))]

\* the for loop of compute_segment_word_lengths
RECURSIVE LengthsLoop(_)
LengthsLoop(segs) ==
    IF segs = <<>> THEN <<>>
    ELSE LET tokens == _tokenize_regex(Head(segs))
         IN  (IF tokens # <<>> THEN <<Len(tokens)>> ELSE <<>>)
                 \o LengthsLoop(Tail(segs))

\* compute_segment_word_lengths without the test on the token list
compute_lengths_keeping_empty(t, conn, mode) ==
    LET segs == split_segments_by_connectors(t, conn, mode)
    IN  [i \in 1..Len(segs) |-> Len(_tokenize_regex(segs[i]))]

compute_segment_word_lengths(t, conn, mode) ==
    LengthsLoop(split_segments_by_connectors(t, conn, mode))

(***************************************************************************)
(* Inputs of the segmentation.                                             *)
(***************************************************************************)
Chunks == {<<"a">>, <<"b">>, <<" ">>, <<".">>, <<"\n">>, <<"*", "*", "*", "*">>}

Texts == {Flatten(cs) : cs \in UNION {[1..n -> Chunks] : n \in 0..MaxChunks}}

Dictionaries ==
    { <<>>,
      << <<>> >>,
      << <<"a">> >>,
      << <<"A">>, <<>> >>,
      << <<"a">>, <<"a", " ", "b">> >>,
      << <<"\n">> >>,
      << <<"\r", "\n">>, <<"\n">> >>,
      << <<"b">>, <<"\n">> >>,
      << <<"a", ".">> >>,
      << <<".">>, <<".", ".">> >>,
      << <<" ">> >>,
      << <<" ">>, <<>>, <<"\n">> >>,
      << <<"b">>, <<"A">> >>,
      << <<"a">>, <<"b">>, <<"a", " ", "b">> >> }

SegmentationModes == {"connecteurs", "connecteurs_et_ponctuation"}

InitSeg ==
    /\ pc = "input"
    /\ text \in Texts
    /\ connectors \in Dictionaries
    /\ segmentation_mode \in SegmentationModes
    /\ segments = <<>>
    /\ lengths = <<>>
    /\ longueurs = <<>>
    /\ seuil_segment_court = 0
    /\ resume = NoResume
    /\ rows = <<>>
    /\ idx = 1
    /\ lignes = <<>>
    /\ reponses_ignorees = 0
    /\ LoadIdle
    /\ KSIdle
    /\ PairIdle
    /\ MWIdle
    /\ FriedIdle
    /\ SpacyIdle
    /\ AnnotIdle
    /\ LengthsIdle

SplitSegments ==
    /\ pc = "input"
    /\ segments' = split_segments_by_connectors(text, connectors, segmentation_mode)
    /\ pc' = "split"
    /\ UNCHANGED <<text, connectors, segmentation_mode, lengths,
                   resVars, rowVars, loadVars, ksVars, pairVars, mwVars, friedVars, spacyVars, annotVars, lenVars>>

ComputeLengths ==
    /\ pc = "input"
    /\ lengths' = compute_segment_word_lengths(text, connectors, segmentation_mode)
    /\ pc' = "lengths"
    /\ UNCHANGED <<text, connectors, segmentation_mode, segments,
                   resVars, rowVars, loadVars, ksVars, pairVars, mwVars, friedVars, spacyVars, annotVars, lenVars>>

NextSeg == SplitSegments \/ ComputeLengths

SpecSeg == InitSeg /\ [][NextSeg]_vars

(***************************************************************************)
(* Vocabulary of the properties of the segmentation.                       *)
(***************************************************************************)
PONCTUATION == "connecteurs_et_ponctuation"

NonEmptyKeys(conn) == {conn[i] : i \in 1..Len(conn)} \ {<<>>}

\* the key is recognised at position p of s by its own connector regex
KeyMatchesAt(s, key, p) == MatchAltAt(s, _wrap_connector_regex(key), p) # 0

\* the text holds no occurrence of any connector of the dictionary
NoConnectorOccurrence(s, conn) ==
    \A key \in NonEmptyKeys(conn) : \A p \in 1..Len(s) : ~KeyMatchesAt(s, key, p)

HasMetadataLine(s) ==
    \E i \in 1..Len(SplitLines(s)) : METADATA_LINE_PATTERN(SplitLines(s)[i])

\* the boundary matches the segmentation walks through, in text order
Boundaries(t0, conn, mode) ==
    LET cp == _build_connector_pattern(conn)
    IN  IF cp = NoPattern THEN <<>>
        ELSE FindIter(_remove_metadata_lines(t0),
                      _build_boundary_pattern(conn, mode = PONCTUATION, cp), 1)

\* C1 as stated: without any connector occurrence, and with a non-empty key in
\* the dictionary, the punctuation mode returns exactly one segment whose
\* trimmed form is the trimmed input text.
C1_OneSegmentForEveryText ==
    (/\ pc = "split"
     /\ segmentation_mode = PONCTUATION
     /\ NonEmptyKeys(connectors) # {}
     /\ NoConnectorOccurrence(text, connectors))
        => (Len(segments) = 1 /\ Strip(segments[1]) = Strip(text))

\* C1 amended: for a non-empty text that, once its metadata lines are removed,
\* holds no connector occurrence, the punctuation mode returns exactly one
\* segment, the text left by the removal, which is the input text itself when
\* it has no metadata line: punctuation alone never creates a boundary.
C1_PunctuationAloneNeverSplits ==
    (/\ pc = "split"
     /\ segmentation_mode = PONCTUATION
     /\ NonEmptyKeys(connectors) # {}
     /\ text # <<>>
     /\ NoConnectorOccurrence(_remove_metadata_lines(text), connectors))
        => /\ segments = <<_remove_metadata_lines(text)>>
           /\ ~HasMetadataLine(text) => segments = <<text>>

\* a text with punctuation between two words and no connector, returned whole
C1_WitnessPunctuatedText ==
    /\ pc = "split"
    /\ segmentation_mode = PONCTUATION
    /\ NonEmptyKeys(connectors) # {}
    /\ ~HasMetadataLine(text)
    /\ NoConnectorOccurrence(text, connectors)
    /\ \E p \in 2..(Len(text) - 1) :
           /\ text[p] \in PunctChars
           /\ text[p - 1] \in WordChars
           /\ text[p + 1] \in WordChars
    /\ segments = <<text>>


\* the stretches of text the walk sees and the ones the rule of C2 keeps
ExpectedSegments(t0, conn, mode) ==
    LET t == _remove_metadata_lines(t0)
        ms == Boundaries(t0, conn, mode)
        n == Len(ms)
        StartOf(j) == IF j = 0 THEN 1 ELSE ms[j].end
        EndOf(j) == IF j = n THEN Len(t) + 1 ELSE ms[j + 1].start
        Stretch(j) == Slice(t, StartOf(j), EndOf(j))
        IsConnectorMatch(j) ==
            /\ j \in 1..n
            /\ \E key \in NonEmptyKeys(conn) : KeyMatchesAt(t, key, ms[j].start)
        Kept(j) ==
            /\ ~IsBlank(Stretch(j))
            /\ IsConnectorMatch(j) \/ IsConnectorMatch(j + 1)
        kept == SelectSeq([j \in 1..(n + 1) |-> j - 1], Kept)
    IN  [i \in 1..Len(kept) |-> Stretch(kept[i])]

ConnectorFound(t0, conn) ==
    /\ t0 # <<>>
    /\ _build_connector_pattern(conn) # NoPattern
    /\ Search(_remove_metadata_lines(t0), _build_connector_pattern(conn), 1) # NoMatch

\* C2: in the punctuation mode, when the text holds a connector, the returned
\* segments are exactly the non-blank stretches between consecutive boundaries
\* that touch at least one connector match; the others are dropped.
C2_SegmentsTouchAConnector ==
    (/\ pc = "split"
     /\ segmentation_mode = PONCTUATION
     /\ ConnectorFound(text, connectors))
        => segments = ExpectedSegments(text, connectors, segmentation_mode)

\* str.splitlines(keepends=True)
RECURSIVE LinesWithEnds(_)
LinesWithEnds(s) ==
    IF s = <<>> THEN <<>>
    ELSE LET breaks == {i \in 1..Len(s) : s[i] \in LineBreakChars}
         IN  IF breaks = {} THEN <<s>>
             ELSE LET i == Min(breaks)
                      n == IF s[i] = "\r" /\ i < Len(s) /\ s[i + 1] = "\n"
                           THEN 2 ELSE 1
                  IN  <<Slice(s, 1, i + n)>>
                          \o LinesWithEnds(Slice(s, i + n, Len(s) + 1))

\* the text from which every metadata line is deleted with its terminator
DeleteMetadataLines(s) ==
    Flatten(SelectSeq(LinesWithEnds(s), LAMBDA l : ~METADATA_LINE_PATTERN(l)))

\* the segment texts up to surrounding whitespace and line-ending form; a blank
\* segment carries no text
Canonical(segs) ==
    LET nonBlank == SelectSeq(segs, LAMBDA seg : ~IsBlank(seg))
    IN  [i \in 1..Len(nonBlank) |-> JoinLines(SplitLines(Strip(nonBlank[i])))]

\* C3: the segmentation of a text returns the same segment texts, up to
\* surrounding whitespace and line endings, as the segmentation of the text
\* without its metadata lines.
C3_MetadataLinesAreTransparent ==
    pc = "split"
        => Canonical(segments)
               = Canonical(split_segments_by_connectors(
                     DeleteMetadataLines(text), connectors, segmentation_mode))

\* s holds the key literally (case folded) at position p
LiteralAt(s, key, p) ==
    /\ p + Len(key) <= Len(s) + 1
    /\ \A i \in 1..Len(key) : Lower(s[p + i - 1]) = Lower(key[i])

\* C4: a key is wrapped in word boundaries only if its first and last
\* characters are alphanumeric; any other key is matched at every literal
\* occurrence in the text.
C4_BoundariesOnlyForAlnumEnds ==
    pc = "split" =>
        \A key \in NonEmptyKeys(connectors) :
            LET alnumEnds == key[1] \in AlnumChars /\ key[Len(key)] \in AlnumChars
            IN  /\ _wrap_connector_regex(key).word_bounded => alnumEnds
                /\ ~alnumEnds =>
                       \A p \in 1..Len(text) :
                           LiteralAt(text, key, p) => KeyMatchesAt(text, key, p)

\* C5: whenever several keys match at the position of a boundary, the boundary
\* taken is as long as the longest of them.
C5_LongestConnectorWins ==
    pc = "split" =>
        LET t == _remove_metadata_lines(text)
            ms == Boundaries(text, connectors, segmentation_mode)
        IN  \A j \in 1..Len(ms) :
                \A key \in NonEmptyKeys(connectors) :
                    KeyMatchesAt(t, key, ms[j].start)
                        => Len(key) <= ms[j].end - ms[j].start

C5_WitnessSharedPrefix ==
    /\ pc = "split"
    /\ LET t == _remove_metadata_lines(text)
           ms == Boundaries(text, connectors, segmentation_mode)
       IN  \E j \in 1..Len(ms) :
               \E k1, k2 \in NonEmptyKeys(connectors) :
                   /\ Len(k1) < Len(k2)
                   /\ KeyMatchesAt(t, k1, ms[j].start)
                   /\ KeyMatchesAt(t, k2, ms[j].start)
                   /\ ms[j].end - ms[j].start = Len(k2)

\* C6 as stated: an empty text, or a dictionary whose keys are all empty or
\* whitespace-only, gives the empty list in both modes.
C6_EmptyForBlankKeys ==
    (/\ pc = "split"
     /\ \/ text = <<>>
        \/ \A i \in 1..Len(connectors) : IsBlank(connectors[i]))
        => segments = <<>>

\* C6 amended: an empty text, or a dictionary without any non-empty key, gives
\* the empty list in both modes.
C6_EmptyForNoKey ==
    (/\ pc = "split"
     /\ \/ text = <<>>
        \/ NonEmptyKeys(connectors) = {})
        => segments = <<>>

C6_WitnessEmptyInputs ==
    /\ pc = "split"
    /\ segments = <<>>
    /\ \/ text = <<>> /\ NonEmptyKeys(connectors) # {}
       \/ text # <<>> /\ connectors # <<>> /\ NonEmptyKeys(connectors) = {}

\* C7: the returned lengths are the token counts, in segment order, of the
\* segments that hold at least one token, so every value is at least 1.
C7_LengthsArePositiveTokenCounts ==
    pc = "lengths" =>
        LET segs == split_segments_by_connectors(text, connectors, segmentation_mode)
            counts == [i \in 1..Len(segs) |-> Len(_tokenize_regex(segs[i]))]
        IN  /\ \A i \in 1..Len(lengths) : lengths[i] \in Nat /\ lengths[i] >= 1
            /\ lengths = SelectSeq(counts, LAMBDA c : c > 0)

C7_WitnessTokenlessSegment ==
    /\ pc = "lengths"
    /\ lengths # <<>>
    /\ LET segs == split_segments_by_connectors(text, connectors, segmentation_mode)
       IN  \E i \in 1..Len(segs) : _tokenize_regex(segs[i]) = <<>>

(***************************************************************************)
(* Indicators of one response (resumer_longueurs_segments).  The floats    *)
(* are carried exactly: a mean is the fraction num/den, the standard       *)
(* deviation is the square root of the fraction variance, a float division *)
(* is the pair (dividend, divisor) and raises on a zero divisor.           *)
(***************************************************************************)
RECURSIVE Sum(_)
Sum(xs) == IF xs = <<>> THEN 0 ELSE Head(xs) + Sum(Tail(xs))

RECURSIVE SumSquares(_)
SumSquares(xs) == IF xs = <<>> THEN 0 ELSE Head(xs) * Head(xs) + SumSquares(Tail(xs))

\* the k-th smallest value of xs (1-based), as in the sorted array
KthSmallest(xs, k) ==
    CHOOSE v \in {xs[i] : i \in 1..Len(xs)} :
        /\ Cardinality({i \in 1..Len(xs) : xs[i] < v}) < k
        /\ k <= Cardinality({i \in 1..Len(xs) : xs[i] <= v})

\* np.median
Median(xs) ==
    LET n == Len(xs)
    IN  IF n % 2 = 1 THEN [num |-> KthSmallest(xs, (n + 1) \div 2), den |-> 1]
        ELSE [num |-> KthSmallest(xs, n \div 2) + KthSmallest(xs, n \div 2 + 1),
              den |-> 2]

\* np.mean(valeurs <= seuil): the mean of the booleans
RECURSIVE CountAtMost(_, _)
CountAtMost(xs, seuil) ==
    IF xs = <<>> THEN 0
    ELSE (IF Head(xs) <= seuil THEN 1 ELSE 0) + CountAtMost(Tail(xs), seuil)

\* np.mean(valeurs < seuil)
RECURSIVE CountBelow(_, _)
CountBelow(xs, seuil) ==
    IF xs = <<>> THEN 0
    ELSE (IF Head(xs) < seuil THEN 1 ELSE 0) + CountBelow(Tail(xs), seuil)

\* a / b on Python floats
FloatDiv(a, b) ==
    IF b.num = 0 THEN ZeroDivisionError ELSE [dividend |-> a, divisor |-> b]

\* the dict built at the end of resumer_longueurs_segments
ResumeDict(lms, ecart_type, coefficient_variation, mediane, proportion_courts) ==
    IF coefficient_variation = ZeroDivisionError THEN ZeroDivisionError
    ELSE [kind |-> "dict",
          lms |-> lms,
          ecart_type |-> ecart_type,
          coefficient_variation |-> coefficient_variation,
          mediane |-> mediane,
          proportion_courts |-> proportion_courts]

\* resumer_longueurs_segments dividing by the mean whatever its value
resumer_without_mean_guard(longs, seuil) ==
    IF longs = <<>> THEN NoResume
    ELSE LET n == Len(longs)
             lms == [num |-> Sum(longs), den |-> n]
             ecart_type == [variance |-> [num |-> n * SumSquares(longs)
                                                    - Sum(longs) * Sum(longs),
                                          den |-> n * n]]
         IN  ResumeDict(lms, ecart_type, FloatDiv(ecart_type, lms), Median(longs),
                        IF seuil > 0 THEN [num |-> CountAtMost(longs, seuil), den |-> n]
                        ELSE Zero)

\* resumer_longueurs_segments counting the lengths strictly under the threshold
resumer_with_strict_threshold(longs, seuil) ==
    IF longs = <<>> THEN NoResume
    ELSE LET n == Len(longs)
             lms == [num |-> Sum(longs), den |-> n]
             ecart_type == [variance |-> [num |-> n * SumSquares(longs)
                                                    - Sum(longs) * Sum(longs),
                                          den |-> n * n]]
         IN  ResumeDict(lms, ecart_type,
                        IF lms.num # 0 THEN FloatDiv(ecart_type, lms) ELSE Zero,
                        Median(longs),
                        IF seuil > 0 THEN [num |-> CountBelow(longs, seuil), den |-> n]
                        ELSE Zero)

resumer_longueurs_segments(longs, seuil) ==
    IF longs = <<>> THEN NoResume
    ELSE LET n == Len(longs)
             lms == [num |-> Sum(longs), den |-> n]
             ecart_type == [variance |-> [num |-> n * SumSquares(longs)
                                                    - Sum(longs) * Sum(longs),
                                          den |-> n * n]]
             coefficient_variation ==
                 IF lms.num # 0 THEN FloatDiv(ecart_type, lms) ELSE Zero
             mediane == Median(longs)
             proportion_courts ==
                 IF seuil > 0 THEN [num |-> CountAtMost(longs, seuil), den |-> n]
                 ELSE Zero
         IN  ResumeDict(lms, ecart_type, coefficient_variation, mediane,
                        proportion_courts)

(***************************************************************************)
(* Inputs of the summary.                                                  *)
(***************************************************************************)
MaxLengths == 3
MaxLength == 2
MaxSeuil == 3

LengthValues == (0 - MaxLength)..MaxLength

InitResume ==
    /\ pc = "input"
    /\ longueurs \in UNION {[1..n -> LengthValues] : n \in 0..MaxLengths}
    /\ seuil_segment_court \in (0 - 1)..MaxSeuil
    /\ resume = NoResume
    /\ text = <<>>
    /\ connectors = <<>>
    /\ segmentation_mode = "connecteurs"
    /\ segments = <<>>
    /\ lengths = <<>>
    /\ rows = <<>>
    /\ idx = 1
    /\ lignes = <<>>
    /\ reponses_ignorees = 0
    /\ LoadIdle
    /\ KSIdle
    /\ PairIdle
    /\ MWIdle
    /\ FriedIdle
    /\ SpacyIdle
    /\ AnnotIdle
    /\ LengthsIdle

ResumerLongueurs ==
    /\ pc = "input"
    /\ resume' = resumer_longueurs_segments(longueurs, seuil_segment_court)
    /\ pc' = "resume"
    /\ UNCHANGED <<longueurs, seuil_segment_court,
                   segVars, rowVars, loadVars, ksVars, pairVars, mwVars, friedVars, spacyVars, annotVars, lenVars>>

NextResume == ResumerLongueurs

SpecResume == InitResume /\ [][NextResume]_vars

\* C9: the summary is None exactly for an empty list, never raises on a
\* non-empty list, and the coefficient of variation is 0 when the mean is 0.
C9_NoneOnlyWhenEmptyAndNoDivisionError ==
    pc = "resume" =>
        /\ resume = NoResume <=> longueurs = <<>>
        /\ resume # ZeroDivisionError
        /\ (longueurs # <<>> /\ Sum(longueurs) = 0)
               => resume.coefficient_variation = Zero

C9_WitnessZeroMean ==
    /\ pc = "resume"
    /\ Len(longueurs) >= 2
    /\ Sum(longueurs) = 0
    /\ resume.kind = "dict"
    /\ resume.ecart_type.variance.num > 0
    /\ resume.coefficient_variation = Zero

\* C10: proportion_courts is the share of the lengths at most equal to the
\* threshold when the threshold is positive, 0 otherwise, and lies in [0, 1].
C10_ProportionOfShortSegments ==
    (pc = "resume" /\ longueurs # <<>>) =>
        LET p == resume.proportion_courts
            n == Len(longueurs)
            short == Cardinality({i \in 1..n : longueurs[i] <= seuil_segment_court})
        IN  /\ seuil_segment_court > 0 => p.num * n = short * p.den
            /\ seuil_segment_court <= 0 => p.num = 0
            /\ p.den > 0
            /\ 0 <= p.num /\ p.num <= p.den

C10_WitnessLengthAtThreshold ==
    /\ pc = "resume"
    /\ longueurs # <<>>
    /\ seuil_segment_court > 0
    /\ \E i \in 1..Len(longueurs) : longueurs[i] = seuil_segment_court
    /\ \E i \in 1..Len(longueurs) : longueurs[i] > seuil_segment_court
    /\ 0 < resume.proportion_courts.num
    /\ resume.proportion_courts.num < resume.proportion_courts.den

(***************************************************************************)
(* Per-response indicators: the loops of resumer_reponses_par_modalite     *)
(* (hash.py) and calculer_indicateurs_reponses_appairees (friedeman.py)    *)
(* over the rows of the filtered dataframe.  A row holds the cells of the  *)
(* model variable, of the block variable and of the column "texte".        *)
(***************************************************************************)
DEFAULT_SEUIL_SEGMENT_COURT == 10

\* a missing cell of a modality column: pd.isna holds
NaN == "NaN"
\* a missing cell of the text column: the float nan
NaNText == <<"NaN">>

\* str(row.get("texte", "") or "").strip(): None and "" give "", nan is
\* truthy and gives "nan"
TexteOf(row) ==
    Strip(IF row.texte = None \/ row.texte = <<>> THEN <<>>
          ELSE IF row.texte = NaNText THEN <<"n", "a", "n">>
          ELSE row.texte)

\* the body of the loop of resumer_reponses_par_modalite that forgets to
\* count a response without segment length
resumer_reponses_row_uncounted(row, conn, mode, seuil, lgs, ignorees) ==
    LET modalite == row.modele
        texte == TexteOf(row)
    IN  IF modalite = NaN \/ texte = <<>>
        THEN [lignes |-> lgs, reponses_ignorees |-> ignorees + 1]
        ELSE LET res == resumer_longueurs_segments(
                            compute_segment_word_lengths(texte, conn, mode), seuil)
             IN  IF res = NoResume
                 THEN [lignes |-> lgs, reponses_ignorees |-> ignorees]
                 ELSE [lignes |-> Append(lgs, [modalite |-> modalite] @@ res),
                       reponses_ignorees |-> ignorees]

\* the body of the loop of resumer_reponses_par_modalite for one row
resumer_reponses_row(row, conn, mode, seuil, lgs, ignorees) ==
    LET modalite == row.modele
        texte == TexteOf(row)
    IN  IF modalite = NaN \/ texte = <<>>
        THEN [lignes |-> lgs, reponses_ignorees |-> ignorees + 1]
        ELSE LET longs == compute_segment_word_lengths(texte, conn, mode)
                 res == resumer_longueurs_segments(longs, seuil)
             IN  IF res = NoResume
                 THEN [lignes |-> lgs, reponses_ignorees |-> ignorees + 1]
                 ELSE [lignes |-> Append(lgs, [modalite |-> modalite] @@ res),
                       reponses_ignorees |-> ignorees]

\* the body of the loop of calculer_indicateurs_reponses_appairees for one row
indicateurs_appairees_row(row, conn, mode, seuil, lgs, ignorees) ==
    LET modele == row.modele
        bloc == row.bloc
        texte == TexteOf(row)
    IN  IF modele = NaN \/ bloc = NaN \/ texte = <<>>
        THEN [lignes |-> lgs, reponses_ignorees |-> ignorees + 1]
        ELSE LET longs == compute_segment_word_lengths(texte, conn, mode)
                 res == resumer_longueurs_segments(longs, seuil)
             IN  IF res = NoResume
                 THEN [lignes |-> lgs, reponses_ignorees |-> ignorees + 1]
                 ELSE [lignes |-> Append(lgs, [modele |-> modele, bloc |-> bloc] @@ res),
                       reponses_ignorees |-> ignorees]

(***************************************************************************)
(* Inputs of the loops.                                                    *)
(***************************************************************************)
MaxRows == 2

RowTexts ==
    {None, NaNText, <<" ">>, <<".">>, <<"b", " ", "a", " ", "b">>}

RowPool == [modele : {"m1", NaN}, bloc : {"p1", NaN}, texte : RowTexts]

RowDictionaries == { <<>>, << <<"a">> >> }

InitRows ==
    /\ pc = "input"
    /\ rows \in UNION {[1..n -> RowPool] : n \in 0..MaxRows}
    /\ connectors \in RowDictionaries
    /\ segmentation_mode \in SegmentationModes
    /\ seuil_segment_court = DEFAULT_SEUIL_SEGMENT_COURT
    /\ idx = 1
    /\ lignes = <<>>
    /\ reponses_ignorees = 0
    /\ text = <<>>
    /\ segments = <<>>
    /\ lengths = <<>>
    /\ longueurs = <<>>
    /\ resume = NoResume
    /\ LoadIdle
    /\ KSIdle
    /\ PairIdle
    /\ MWIdle
    /\ FriedIdle
    /\ SpacyIdle
    /\ AnnotIdle
    /\ LengthsIdle

\* resumer_reponses_par_modalite up to its loop: an empty filtered dataframe
\* returns at once
ResumerReponsesCall ==
    /\ pc = "input"
    /\ pc' = IF rows = <<>> THEN "rpm_done" ELSE "rpm_loop"
    /\ lignes' = <<>>
    /\ reponses_ignorees' = 0
    /\ idx' = 1
    /\ UNCHANGED <<rows, segVars, resVars, loadVars, ksVars, pairVars, mwVars, friedVars, spacyVars, annotVars, lenVars>>

ResumerReponsesRow ==
    /\ pc = "rpm_loop"
    /\ idx <= Len(rows)
    /\ LET out == resumer_reponses_row(rows[idx], connectors, segmentation_mode,
                                       seuil_segment_court, lignes, reponses_ignorees)
       IN  /\ lignes' = out.lignes
           /\ reponses_ignorees' = out.reponses_ignorees
    /\ idx' = idx + 1
    /\ UNCHANGED <<pc, rows, segVars, resVars, loadVars, ksVars, pairVars, mwVars, friedVars, spacyVars, annotVars, lenVars>>

ResumerReponsesReturn ==
    /\ pc = "rpm_loop"
    /\ idx > Len(rows)
    /\ pc' = "rpm_done"
    /\ UNCHANGED <<rowVars, segVars, resVars, loadVars, ksVars, pairVars, mwVars, friedVars, spacyVars, annotVars, lenVars>>

\* calculer_indicateurs_reponses_appairees up to its loop
IndicateursAppaireesCall ==
    /\ pc = "input"
    /\ pc' = IF rows = <<>> THEN "ira_done" ELSE "ira_loop"
    /\ lignes' = <<>>
    /\ reponses_ignorees' = 0
    /\ idx' = 1
    /\ UNCHANGED <<rows, segVars, resVars, loadVars, ksVars, pairVars, mwVars, friedVars, spacyVars, annotVars, lenVars>>

IndicateursAppaireesRow ==
    /\ pc = "ira_loop"
    /\ idx <= Len(rows)
    /\ LET out == indicateurs_appairees_row(rows[idx], connectors, segmentation_mode,
                                            seuil_segment_court, lignes,
                                            reponses_ignorees)
       IN  /\ lignes' = out.lignes
           /\ reponses_ignorees' = out.reponses_ignorees
    /\ idx' = idx + 1
    /\ UNCHANGED <<pc, rows, segVars, resVars, loadVars, ksVars, pairVars, mwVars, friedVars, spacyVars, annotVars, lenVars>>

IndicateursAppaireesReturn ==
    /\ pc = "ira_loop"
    /\ idx > Len(rows)
    /\ pc' = "ira_done"
    /\ UNCHANGED <<rowVars, segVars, resVars, loadVars, ksVars, pairVars, mwVars, friedVars, spacyVars, annotVars, lenVars>>

NextRows ==
    \/ ResumerReponsesCall
    \/ ResumerReponsesRow
    \/ ResumerReponsesReturn
    \/ IndicateursAppaireesCall
    \/ IndicateursAppaireesRow
    \/ IndicateursAppaireesReturn

SpecRows == InitRows /\ [][NextRows]_vars

\* the row is one that must be ignored: a missing modality (or block),
\* a blank text, or no word length out of the segmentation
IgnoredRow(row, withBloc) ==
    \/ row.modele = NaN
    \/ withBloc /\ row.bloc = NaN
    \/ IsBlank(TexteOf(row))
    \/ compute_segment_word_lengths(TexteOf(row), connectors, segmentation_mode) = <<>>

\* C8: in both loops every row seen so far gave exactly one record or one
\* increment of the ignored count, a row being ignored exactly in the cases
\* of IgnoredRow; at the end records + ignored = number of filtered rows.
C8_EveryRowIsRecordedOrIgnored ==
    pc \in {"rpm_loop", "rpm_done", "ira_loop", "ira_done"} =>
        LET withBloc == pc \in {"ira_loop", "ira_done"}
            seen == 1..(idx - 1)
            ignored == {j \in seen : IgnoredRow(rows[j], withBloc)}
            kept == SelectSeq([j \in seen |-> j], LAMBDA j : j \notin ignored)
        IN  /\ reponses_ignorees = Cardinality(ignored)
            /\ Len(lignes) = Len(kept)
            /\ \A k \in 1..Len(lignes) :
                   IF withBloc
                   THEN /\ lignes[k].modele = rows[kept[k]].modele
                        /\ lignes[k].bloc = rows[kept[k]].bloc
                   ELSE lignes[k].modalite = rows[kept[k]].modele
            /\ pc \in {"rpm_done", "ira_done"} =>
                   /\ idx - 1 = Len(rows)
                   /\ Len(lignes) + reponses_ignorees = Len(rows)

C8_WitnessRecordAndIgnored ==
    /\ pc \in {"rpm_done", "ira_done"}
    /\ Len(lignes) >= 1
    /\ reponses_ignorees >= 1
    /\ \E j \in 1..Len(rows) :
           /\ rows[j].modele # NaN
           /\ ~IsBlank(TexteOf(rows[j]))
           /\ IgnoredRow(rows[j], FALSE)

(***************************************************************************)
(* Loading of the connector dictionary: analyses.load_connectors for the   *)
(* default file, import._validate_connectors_payload for an uploaded file, *)
(* and the session state read by connecteurs.load_available_connectors.    *)
(* A JSON document is a record: kind "not_utf8" for bytes that are not     *)
(* UTF-8, kind "invalid_json" for a text json.load                         *)
(* rejects, kind "list" for a JSON array, kind "dict" for an object with   *)
(* the sequence of its entries in document order.  A JSON value is a       *)
(* record with its type and, for a string, its characters.  A Python dict  *)
(* is the sequence of its items in insertion order.                        *)
(***************************************************************************)
NEWLINE_CANONICAL == <<"\n">>
NEWLINE_ALIASES == {<<"\n">>, <<"\r", "\n">>}

JsonString(chars) == [type |-> "str", chars |-> chars]
JsonNumber == [type |-> "int", chars |-> <<"1">>]

\* raise exception(message); the messages are written without their accents
Raise(exception, message) ==
    [kind |-> "raise", exception |-> exception, message |-> message]

\* str.strip(" \t")
StripSpacesTabs(s) ==
    LET kept == {i \in 1..Len(s) : s[i] \notin {" ", "\t"}}
    IN  IF kept = {} THEN <<>>
        ELSE Slice(s, Min(kept), (CHOOSE m \in kept : \A o \in kept : o <= m) + 1)

\* d[key] = value: a key already present keeps its place
DictSet(items, key, value) ==
    IF \E i \in 1..Len(items) : items[i].key = key
    THEN [i \in 1..Len(items) |->
             IF items[i].key = key THEN [key |-> key, value |-> value]
             ELSE items[i]]
    ELSE Append(items, [key |-> key, value |-> value])

\* the for loop of load_connectors with key.strip() in place of
\* key.strip(" \t")
RECURSIVE load_connectors_loop_strip_all(_, _)
load_connectors_loop_strip_all(entries, cleaned_connectors) ==
    IF entries = <<>> THEN cleaned_connectors
    ELSE LET value == Head(entries).value
             stripped_key == Strip(Head(entries).key.chars)
         IN  load_connectors_loop_strip_all(
                 Tail(entries),
                 IF stripped_key = <<>> THEN cleaned_connectors
                 ELSE IF stripped_key \in NEWLINE_ALIASES
                 THEN DictSet(cleaned_connectors, NEWLINE_CANONICAL, value)
                 ELSE DictSet(cleaned_connectors, stripped_key, value))

\* the for loop of load_connectors
RECURSIVE load_connectors_loop(_, _)
load_connectors_loop(entries, cleaned_connectors) ==
    IF entries = <<>> THEN cleaned_connectors
    ELSE LET value == Head(entries).value
             stripped_key == StripSpacesTabs(Head(entries).key.chars)
         IN  load_connectors_loop(
                 Tail(entries),
                 IF stripped_key = <<>> THEN cleaned_connectors
                 ELSE IF stripped_key \in NEWLINE_ALIASES
                 THEN DictSet(cleaned_connectors, NEWLINE_CANONICAL, value)
                 ELSE DictSet(cleaned_connectors, stripped_key, value))

\* the read of the handle raises on bytes that are not UTF-8, json.load
\* raises on an invalid text; a JSON array has no items()
load_connectors(file) ==
    IF file.kind = "not_utf8" THEN Raise("UnicodeDecodeError", "")
    ELSE IF file.kind = "invalid_json" THEN Raise("JSONDecodeError", "")
    ELSE IF file.kind # "dict"
    THEN Raise("AttributeError", "'list' object has no attribute 'items'")
    ELSE [kind |-> "dict", items |-> load_connectors_loop(file.entries, <<>>)]

\* the for loop of _validate_connectors_payload
RECURSIVE validate_loop(_, _)
validate_loop(entries, conn) ==
    IF entries = <<>> THEN [kind |-> "dict", items |-> conn]
    ELSE LET raw_key == Head(entries).key
             raw_value == Head(entries).value
         IN  IF raw_key.type # "str" \/ raw_value.type # "str"
             THEN Raise("ValueError",
                        "Chaque entree doit utiliser des chaines pour la cle et la valeur.")
             ELSE LET key == StripSpacesTabs(raw_key.chars)
                  IN  IF key = <<>> THEN validate_loop(Tail(entries), conn)
                      ELSE validate_loop(
                               Tail(entries),
                               DictSet(conn, key,
                                       IF Strip(raw_value.chars) # <<>>
                                       THEN JsonString(Strip(raw_value.chars))
                                       ELSE raw_value))

_validate_connectors_payload(payload) ==
    IF payload.kind # "dict"
    THEN Raise("ValueError", "Le fichier JSON doit contenir un objet {cle: label}.")
    ELSE LET out == validate_loop(payload.entries, <<>>)
         IN  IF out.kind = "dict" /\ out.items = <<>>
             THEN Raise("ValueError",
                        "Aucun connecteur valide n'a ete trouve dans le fichier JSON fourni.")
             ELSE out

\* the returned dict, or None after a call of st.error
_decode_uploaded_json(file) ==
    IF file.kind = "not_utf8"
    THEN [ret |-> NoDict,
          st_error |-> <<"Impossible de decoder le dictionnaire en UTF-8.">>]
    ELSE IF file.kind = "invalid_json"
    THEN [ret |-> NoDict,
          st_error |-> <<"Le fichier televerse n'est pas un JSON valide.">>]
    ELSE LET out == _validate_connectors_payload(file)
         IN  IF out.kind = "raise"
             THEN [ret |-> NoDict, st_error |-> <<out.message>>]
             ELSE [ret |-> out, st_error |-> <<>>]

\* bool(connectors): None and the empty dict are falsy
Truthy(d) == d.kind = "dict" /\ d.items # <<>>

uses_custom_dictionary(choice, custom) == choice = "custom" /\ Truthy(custom)

load_available_connectors(choice, custom, file) ==
    IF uses_custom_dictionary(choice, custom) THEN custom
    ELSE load_connectors(file)

(***************************************************************************)
(* Inputs of the loading.                                                  *)
(***************************************************************************)
MaxEntries == 3

JsonKeys ==
    { <<"a">>, <<" ", "a">>, <<>>, <<"\t", " ">>,
      <<"\n">>, <<"\r", "\n">>, <<" ", "\n">> }

JsonValues == { JsonString(<<"A">>), JsonString(<<" ", "B">>), JsonNumber }

\* the JSON objects of at most MaxEntries entries, without repeated key
JsonObjects ==
    { [kind |-> "dict", entries |-> es] :
        es \in { s \in UNION {[1..n -> [key : {JsonString(k) : k \in JsonKeys},
                                        value : JsonValues]] : n \in 0..MaxEntries} :
                   \A i, j \in 1..Len(s) : s[i].key = s[j].key => i = j } }

JsonFiles ==
    JsonObjects \cup {[kind |-> "not_utf8"], [kind |-> "invalid_json"], [kind |-> "list"]}

\* the file on the side that is not under analysis
OtherFiles ==
    { [kind |-> "dict",
       entries |-> << [key |-> JsonString(<<"b">>), value |-> JsonString(<<"B">>)] >>],
      [kind |-> "invalid_json"] }

InitLoad ==
    /\ pc = "input"
    /\ \/ uploaded_file \in JsonFiles /\ default_file \in OtherFiles
       \/ uploaded_file \in OtherFiles \cup {NoFile} /\ default_file \in JsonFiles
    /\ dictionary_choice = "default"
    /\ custom_connectors_dict = NoDict
    /\ dictionary_label = NoLabel
    /\ selector_renders = 0
    /\ st_error = <<>>
    /\ available_connectors = NoDict
    /\ text = <<>>
    /\ connectors = <<>>
    /\ segmentation_mode = "connecteurs"
    /\ segments = <<>>
    /\ lengths = <<>>
    /\ longueurs = <<>>
    /\ seuil_segment_court = 0
    /\ resume = NoResume
    /\ rows = <<>>
    /\ idx = 1
    /\ lignes = <<>>
    /\ reponses_ignorees = 0
    /\ KSIdle
    /\ PairIdle
    /\ MWIdle
    /\ FriedIdle
    /\ SpacyIdle
    /\ AnnotIdle
    /\ LengthsIdle

\* the branch of an upload that keeps the stored dictionary when it fails
custom_kept_after_failed_upload(decoded, stored) ==
    IF Truthy(decoded) THEN decoded ELSE stored

\* the custom dictionary of the session after an upload: stored when it is
\* not empty, else popped
custom_after_upload(decoded, stored) ==
    IF Truthy(decoded) THEN decoded ELSE NoDict

\* uploaded_dictionary.name
FileName(file) == IF "name" \in DOMAIN file THEN file.name ELSE "upload.json"

\* render_dictionary_selector: the choice of the radio, then the upload
RenderDictionarySelector ==
    /\ pc = "input"
    /\ \E choice_key \in {"default", "custom"} :
           /\ dictionary_choice' = choice_key
           /\ IF choice_key = "custom"
              THEN IF uploaded_file # NoFile
                   THEN LET decoded == _decode_uploaded_json(uploaded_file)
                        IN  /\ custom_connectors_dict' =
                                   custom_after_upload(decoded.ret, custom_connectors_dict)
                            /\ st_error' = decoded.st_error
                   ELSE /\ UNCHANGED custom_connectors_dict
                        /\ st_error' = <<>>
              ELSE /\ custom_connectors_dict' = NoDict
                   /\ st_error' = <<>>
           /\ dictionary_label' =
                  IF choice_key = "custom" /\ uploaded_file # NoFile
                     /\ Truthy(_decode_uploaded_json(uploaded_file).ret)
                  THEN FileName(uploaded_file)
                  ELSE IF choice_key = "custom" /\ uploaded_file = NoFile
                          /\ Truthy(custom_connectors_dict)
                  THEN (IF dictionary_label = NoLabel THEN "dictionnaire personnalise"
                        ELSE dictionary_label)
                  ELSE "connecteurs.json"
    /\ pc' = "selected"
    /\ UNCHANGED <<uploaded_file, default_file, available_connectors, selector_renders,
                   segVars, resVars, rowVars, ksVars, pairVars, mwVars, friedVars, spacyVars, annotVars, lenVars>>

LoadAvailableConnectors ==
    /\ pc = "selected"
    /\ available_connectors' =
           load_available_connectors(dictionary_choice, custom_connectors_dict,
                                     default_file)
    /\ pc' = "loaded"
    /\ UNCHANGED <<uploaded_file, default_file, dictionary_choice,
                   custom_connectors_dict, dictionary_label, selector_renders, st_error,
                   segVars, resVars, rowVars, ksVars, pairVars, mwVars, friedVars, spacyVars, annotVars, lenVars>>

NextLoad == RenderDictionarySelector \/ LoadAvailableConnectors

SpecLoad == InitLoad /\ [][NextLoad]_vars

(***************************************************************************)
(* Vocabulary of the properties of the loading.                            *)
(***************************************************************************)
CRLF == <<"\r", "\n">>

DictKeys(d) == {d.items[i].key : i \in 1..Len(d.items)}

\* the dictionary returned comes from the default file
FromDefaultFile ==
    ~uses_custom_dictionary(dictionary_choice, custom_connectors_dict)

\* the key trimmed of spaces and tabs, a newline spelling becoming LF
NormalizedKey(chars) ==
    IF StripSpacesTabs(chars) = CRLF THEN NEWLINE_CANONICAL
    ELSE StripSpacesTabs(chars)

\* C11: load_connectors on a JSON object returns the dictionary whose keys are
\* the keys trimmed of spaces and tabs, without the keys left empty and with
\* CRLF turned into LF, in the order of their first entry; each key carries
\* the label of the last entry that gives it, so a key given by one entry
\* keeps the label of that entry.
C11_KeysTrimmedNewlinesMerged ==
    (pc = "loaded" /\ FromDefaultFile /\ default_file.kind = "dict") =>
        LET es == default_file.entries
            out == available_connectors
            Key(i) == NormalizedKey(es[i].key.chars)
            firsts == SelectSeq([i \in 1..Len(es) |-> i],
                                LAMBDA i : /\ Key(i) # <<>>
                                           /\ \A j \in 1..(i - 1) : Key(j) # Key(i))
            Last(k) == CHOOSE i \in 1..Len(es) :
                           /\ Key(i) = k
                           /\ \A j \in (i + 1)..Len(es) : Key(j) # k
        IN  /\ out.kind = "dict"
            /\ Len(out.items) = Len(firsts)
            /\ \A n \in 1..Len(firsts) :
                   /\ out.items[n].key = Key(firsts[n])
                   /\ out.items[n].value = es[Last(Key(firsts[n]))].value
            /\ CRLF \notin DictKeys(out)
            /\ \A i \in 1..Len(es) :
                   (Key(i) # <<>> /\ \A j \in 1..Len(es) : Key(j) = Key(i) => j = i)
                       => \E n \in 1..Len(out.items) :
                              out.items[n] = [key |-> Key(i), value |-> es[i].value]

\* a file with a key to trim, a blank key and both newline spellings under
\* different labels, loaded into two entries
C11_WitnessBothNewlineSpellings ==
    /\ pc = "loaded"
    /\ FromDefaultFile
    /\ default_file.kind = "dict"
    /\ \E i, j, k \in 1..Len(default_file.entries) :
           /\ default_file.entries[i].key.chars = <<"\n">>
           /\ default_file.entries[j].key.chars = CRLF
           /\ default_file.entries[i].value # default_file.entries[j].value
           /\ default_file.entries[k].key.chars = <<" ", "a">>
    /\ available_connectors.kind = "dict"
    /\ DictKeys(available_connectors) = {<<"\n">>, <<"a">>}

\* C12: a dictionary that reaches the analyses has no blank key and no CRLF
\* key, hence at most one newline key, LF.
C12_OneCanonicalNewlineKey ==
    (pc = "loaded" /\ available_connectors.kind = "dict") =>
        /\ \A k \in DictKeys(available_connectors) : StripSpacesTabs(k) # <<>>
        /\ CRLF \notin DictKeys(available_connectors)

\* the document is a JSON object that maps strings to strings
MapsStringsToStrings(file) ==
    /\ file.kind = "dict"
    /\ \A i \in 1..Len(file.entries) :
           file.entries[i].key.type = "str" /\ file.entries[i].value.type = "str"

\* C13: a source that is not a JSON object from strings to strings is rejected
\* with a reported error on both paths: the upload leaves a message and no
\* custom dictionary, the load of the default file does not raise, and no
\* dictionary with a non-string label is returned.
C13_MalformedSourceIsReported ==
    /\ (/\ pc \in {"selected", "loaded"}
        /\ dictionary_choice = "custom"
        /\ uploaded_file # NoFile
        /\ ~MapsStringsToStrings(uploaded_file))
           => st_error # <<>> /\ custom_connectors_dict = NoDict
    /\ pc = "loaded" =>
           /\ available_connectors.kind # "raise"
           /\ available_connectors.kind = "dict" =>
                  \A i \in 1..Len(available_connectors.items) :
                      available_connectors.items[i].value.type = "str"

(***************************************************************************)
(* Two-sample Kolmogorov-Smirnov test (KolmogorovSmirnov.py).  The         *)
(* statistic and the p-values of scipy are written as the fraction num/den *)
(* whose quotient they are.  The cumulative proportions and their gaps,    *)
(* which the module computes itself, are IEEE-754 doubles, with the        *)
(* rounding of every division and subtraction.                             *)
(***************************************************************************)
Abs(x) == IF x < 0 THEN 0 - x ELSE x

Max(S) == CHOOSE m \in S : \A o \in S : o <= m

Frac(n, d) == [num |-> n, den |-> d]

\* comparisons and difference of floats a and b (positive denominators)
FracEq(a, b) == a.num * b.den = b.num * a.den
FracLt(a, b) == a.num * b.den < b.num * a.den
FracLe(a, b) == a.num * b.den <= b.num * a.den
FracAbsDiff(a, b) == Frac(Abs(a.num * b.den - b.num * a.den), a.den * b.den)

Values(xs) == {xs[i] : i \in 1..Len(xs)}

\* np.searchsorted(sorted(xs), v, side="right"): the number of xs[i] <= v
CountLe(xs, v) == Cardinality({i \in 1..Len(xs) : xs[i] <= v})

\* the number of monotone lattice paths from (i, j) to (n1, n2) all of whose
\* points (x, y) keep |x/n1 - y/n2| under h/(n1*n2)
RECURSIVE PathsInside(_, _, _, _, _)
PathsInside(i, j, n1, n2, h) ==
    IF Abs(i * n2 - j * n1) >= h THEN 0
    ELSE IF i = n1 /\ j = n2 THEN 1
    ELSE (IF i < n1 THEN PathsInside(i + 1, j, n1, n2, h) ELSE 0)
             + (IF j < n2 THEN PathsInside(i, j + 1, n1, n2, h) ELSE 0)

\* scipy's exact two-sided p-value: the share of the lattice paths that
\* reach or leave the band of half-width d
ExactPValue(n1, n2, h) ==
    LET total == PathsInside(0, 0, n1, n2, n1 * n2 + 1)
    IN  Frac(total - PathsInside(0, 0, n1, n2, h), total)

\* ks_2samp reduced to the one-sided statistic max(F1 - F2)
ks_2samp_one_sided(data1, data2) ==
    LET n1 == Len(data1)
        n2 == Len(data2)
        cddiffs == {CountLe(data1, v) * n2 - CountLe(data2, v) * n1 :
                       v \in Values(data1) \cup Values(data2)}
        h == Max(cddiffs)
    IN  [statistic |-> Frac(h, n1 * n2), pvalue |-> ExactPValue(n1, n2, h)]

\* scipy.stats.ks_2samp(data1, data2, alternative="two-sided", mode="auto")
\* on non-empty samples of at most 10000 values: exact p-value
ks_2samp(data1, data2) ==
    LET n1 == Len(data1)
        n2 == Len(data2)
        cddiffs == {CountLe(data1, v) * n2 - CountLe(data2, v) * n1 :
                       v \in Values(data1) \cup Values(data2)}
        minS == Max({0, 0 - Min(cddiffs)})
        maxS == Max(cddiffs)
        h == Max({minS, maxS})
    IN  [statistic |-> Frac(h, n1 * n2), pvalue |-> ExactPValue(n1, n2, h)]

\* the sorted distinct values of xs, as np.unique returns them
RECURSIVE SortedValues(_)
SortedValues(S) ==
    IF S = {} THEN <<>> ELSE <<Min(S)>> \o SortedValues(S \ {Min(S)})

(***************************************************************************)
(* The doubles between 0 and 1, in binary fixed point: the integer         *)
(* x * 2^60 written in base 2^20, most significant digit first, so that    *)
(* <<1, 0, 0, 0>> is 1.0.  A double keeps SignificandBits bits from its    *)
(* leading 1 on; four digits hold every double from 2^-7 up, and the exact *)
(* difference of two of them.                                              *)
(***************************************************************************)
SignificandBits == 53

RECURSIVE Pow2(_)
Pow2(k) == IF k = 0 THEN 1 ELSE 2 * Pow2(k - 1)

\* the base of the digits
Limb == Pow2(20)

\* the weight, in units of the last digit, of the last bit of the significand
\* of a double whose leading 1 is the first of its 3 * 20 fractional bits
TopUnitInLastPlace == Pow2(3 * 20 - SignificandBits)

FloatZero == <<0, 0, 0, 0>>

\* the digits brought back between 0 and Limb - 1, carries and borrows
\* moved to the digit before
Normalize(d) ==
    LET n3 == d[3] + (d[4] \div Limb)
        n2 == d[2] + (n3 \div Limb)
    IN  <<d[1] + (n2 \div Limb), n2 % Limb, n3 % Limb, d[4] % Limb>>

\* the weight, in units of the last digit, of the last bit of the significand
\* of a double whose leading 1 is in the first fractional digit d1
RECURSIVE UnitInLastPlace(_, _)
UnitInLastPlace(d1, ulp) ==
    IF ulp = 1 \/ 2 * d1 >= Limb THEN ulp
    ELSE UnitInLastPlace(2 * d1, ulp \div 2)

\* rounding to the nearest double, a tie going to the even significand;
\* inexact: digits are left beyond the last one
RoundToDouble(x, inexact) ==
    IF x[1] > 0 \/ x[2] = 0 THEN x
    ELSE LET ulp == UnitInLastPlace(x[2], TopUnitInLastPlace)
             low == x[4] % ulp
             odd == (x[4] \div ulp) % 2 = 1
         IN  IF ulp = 1 THEN x
             ELSE IF 2 * low > ulp \/ (2 * low = ulp /\ (inexact \/ odd))
             THEN Normalize(<<x[1], x[2], x[3], x[4] - low + ulp>>)
             ELSE <<x[1], x[2], x[3], x[4] - low>>

\* k / float(n) for integers 0 <= k <= n, n > 0: long division, rounded
FloatQuotient(k, n) ==
    LET r0 == k % n
        r1 == (r0 * Limb) % n
        r2 == (r1 * Limb) % n
        r3 == (r2 * Limb) % n
    IN  RoundToDouble(<<k \div n, (r0 * Limb) \div n, (r1 * Limb) \div n,
                        (r2 * Limb) \div n>>, r3 # 0)

\* x < y on doubles
FloatLt(x, y) ==
    \E k \in 1..4 : x[k] < y[k] /\ \A j \in 1..(k - 1) : x[j] = y[j]

\* abs(x - y) on doubles: the exact difference, rounded
FloatAbsDiff(x, y) ==
    IF FloatLt(x, y)
    THEN RoundToDouble(Normalize([k \in 1..4 |-> y[k] - x[k]]), FALSE)
    ELSE RoundToDouble(Normalize([k \in 1..4 |-> x[k] - y[k]]), FALSE)

\* the rows (longueur, proportion_cumulee) of the ECDF dataframe
_construire_ecdf(longs) ==
    IF longs = <<>> THEN <<>>
    ELSE LET valeurs == SortedValues(Values(longs))
         IN  [i \in 1..Len(valeurs) |->
                 [longueur |-> valeurs[i],
                  proportion_cumulee |->
                      FloatQuotient(CountLe(longs, valeurs[i]), Len(longs))]]

\* dict.get(valeur, default) on dict(zip(longueur, proportion_cumulee))
EcdfGet(ecdf, valeur, default) ==
    IF \E i \in 1..Len(ecdf) : ecdf[i].longueur = valeur
    THEN (CHOOSE r \in {ecdf[i] : i \in 1..Len(ecdf)} : r.longueur = valeur)
             .proportion_cumulee
    ELSE default

\* the for loop of _calculer_ecart_maximal from value number i on
RECURSIVE EcartLoop(_, _, _, _, _, _, _)
EcartLoop(valeurs, i, ecdf_a, ecdf_b, proportion_a, proportion_b, ecart_max) ==
    IF i > Len(valeurs) THEN ecart_max
    ELSE LET pa == EcdfGet(ecdf_a, valeurs[i], proportion_a)
             pb == EcdfGet(ecdf_b, valeurs[i], proportion_b)
             ecart == FloatAbsDiff(pa, pb)
         IN  EcartLoop(valeurs, i + 1, ecdf_a, ecdf_b, pa, pb,
                       IF FloatLt(ecart_max.ecart, ecart)
                       THEN [longueur |-> valeurs[i], proportion_a |-> pa,
                             proportion_b |-> pb, ecart |-> ecart]
                       ELSE ecart_max)

_calculer_ecart_maximal(la, lb) ==
    IF la = <<>> \/ lb = <<>> THEN NoResultat
    ELSE LET ecdf_a == _construire_ecdf(la)
             ecdf_b == _construire_ecdf(lb)
             valeurs == SortedValues(Values(la) \cup Values(lb))
         IN  EcartLoop(valeurs, 1, ecdf_a, ecdf_b, FloatZero, FloatZero,
                       [longueur |-> 0, proportion_a |-> FloatZero,
                        proportion_b |-> FloatZero, ecart |-> FloatZero])

calculer_test_ks(la, lb) ==
    IF la = <<>> \/ lb = <<>> THEN NoResultat
    ELSE LET res == ks_2samp(la, lb)
         IN  [D |-> res.statistic,
              p_value |-> res.pvalue,
              n_a |-> Len(la),
              n_b |-> Len(lb),
              ecart_max |-> _calculer_ecart_maximal(la, lb),
              ecdf_a |-> _construire_ecdf(la),
              ecdf_b |-> _construire_ecdf(lb)]

(***************************************************************************)
(* Permutation p-value.  The bit generator of np.random.default_rng is a   *)
(* linear congruential generator over its state: seeded by random_state    *)
(* when one is given, by the entropy of the operating system otherwise.    *)
(***************************************************************************)
RECURSIVE Factorial(_)
Factorial(n) == IF n <= 1 THEN 1 ELSE n * Factorial(n - 1)

\* the permutation number k (from 0) of the items, in lexicographic order
RECURSIVE NthPermutation(_, _)
NthPermutation(items, k) ==
    IF items = <<>> THEN <<>>
    ELSE LET f == Factorial(Len(items) - 1)
             i == (k \div f) + 1
         IN  <<items[i]>>
                 \o NthPermutation(SubSeq(items, 1, i - 1)
                                       \o SubSeq(items, i + 1, Len(items)),
                                   k % f)

\* np.random.default_rng(random_state) always fed by the operating system
default_rng_unseeded(seed, entropy) == entropy

\* np.random.default_rng(random_state): the initial state of the generator
default_rng(seed, entropy) == IF seed = NoSeed THEN entropy ELSE seed

\* the state of the generator after one draw
RngNext(state) == (75 * state + 74) % 65537

\* rng.permutation(n_total) drawn from the state reached
RngPermutation(state, n_total) ==
    NthPermutation([i \in 1..n_total |-> i], state % Factorial(n_total))

\* the for loop of p_value_par_permutation from iteration number k on: the
\* statistics D_perm of the permutations drawn
RECURSIVE PermutationLoop(_, _, _, _, _)
PermutationLoop(donnees, n_a, k, n, state) ==
    IF k > n THEN <<>>
    ELSE LET n_total == Len(donnees)
             next == RngNext(state)
             indices == RngPermutation(next, n_total)
             groupe_a == [i \in 1..n_a |-> donnees[indices[i]]]
             groupe_b == [i \in 1..(n_total - n_a) |-> donnees[indices[n_a + i]]]
         IN  <<ks_2samp(groupe_a, groupe_b).statistic>>
                 \o PermutationLoop(donnees, n_a, k + 1, n, next)

\* the value returned and, next to it, the statistics of the permutations
p_value_par_permutation(la, lb, n, seed, entropy) ==
    IF la = <<>> \/ lb = <<>> \/ n <= 0
    THEN [p_value |-> NoResultat, D_perm |-> <<>>]
    ELSE IF Len(la) + Len(lb) < 2
    THEN [p_value |-> NoResultat, D_perm |-> <<>>]
    ELSE LET D_observe == ks_2samp(la, lb).statistic
             D_perms == PermutationLoop(la \o lb, Len(la), 1, n,
                                        default_rng(seed, entropy))
             compteur == Cardinality({k \in 1..n : FracLe(D_observe, D_perms[k])})
         IN  [p_value |-> Frac(compteur, n), D_perm |-> D_perms]

(***************************************************************************)
(* Inputs of the Kolmogorov-Smirnov test.                                  *)
(***************************************************************************)
MaxSampleSize == 3
MaxPermutations == 2
\* the largest number of values the two samples hold together
MaxTotal == 4

SampleSizes == 0..MaxSampleSize

SampleLengths == {1, 2, 3}

Samples == UNION {[1..n -> SampleLengths] : n \in SampleSizes}

Seeds == {NoSeed, 0, 1}

Entropy == {2, 3}

InitKS ==
    /\ pc = "input"
    /\ longueurs_a \in Samples
    /\ longueurs_b \in Samples
    /\ Len(longueurs_a) + Len(longueurs_b) <= MaxTotal
    /\ n_permutations \in (0 - 1)..MaxPermutations
    /\ random_state \in Seeds
    /\ resultat = NoResultat
    /\ p_values_permutation = <<>>
    /\ D_permutations = <<>>
    /\ text = <<>>
    /\ connectors = <<>>
    /\ segmentation_mode = "connecteurs"
    /\ segments = <<>>
    /\ lengths = <<>>
    /\ longueurs = <<>>
    /\ seuil_segment_court = 0
    /\ resume = NoResume
    /\ rows = <<>>
    /\ idx = 1
    /\ lignes = <<>>
    /\ reponses_ignorees = 0
    /\ LoadIdle
    /\ PairIdle
    /\ MWIdle
    /\ FriedIdle
    /\ SpacyIdle
    /\ AnnotIdle
    /\ LengthsIdle

CalculerTestKS ==
    /\ pc = "input"
    /\ resultat' = calculer_test_ks(longueurs_a, longueurs_b)
    /\ pc' = "ks"
    /\ UNCHANGED <<longueurs_a, longueurs_b, n_permutations, random_state,
                   p_values_permutation, D_permutations,
                   segVars, resVars, rowVars, loadVars, pairVars, mwVars, friedVars, spacyVars, annotVars, lenVars>>

\* one run of p_value_par_permutation; the same call is run twice
PValueParPermutation ==
    /\ pc \in {"input", "permutation"}
    /\ Len(p_values_permutation) < 2
    /\ \E entropy \in Entropy :
           LET out == p_value_par_permutation(longueurs_a, longueurs_b,
                                              n_permutations, random_state, entropy)
           IN  /\ p_values_permutation' = Append(p_values_permutation, out.p_value)
               /\ D_permutations' = out.D_perm
    /\ pc' = "permutation"
    /\ UNCHANGED <<longueurs_a, longueurs_b, n_permutations, random_state, resultat,
                   segVars, resVars, rowVars, loadVars, pairVars, mwVars, friedVars, spacyVars, annotVars, lenVars>>

NextKS == CalculerTestKS \/ PValueParPermutation

SpecKS == InitKS /\ [][NextKS]_vars

(***************************************************************************)
(* Vocabulary of the properties of the Kolmogorov-Smirnov test.            *)
(***************************************************************************)
\* the empirical distribution function of the sample at v
EmpiricalCdf(xs, v) == Frac(CountLe(xs, v), Len(xs))

\* |F_A(v) - F_B(v)|
CdfGap(v) ==
    FracAbsDiff(EmpiricalCdf(longueurs_a, v), EmpiricalCdf(longueurs_b, v))

ObservedLengths == Values(longueurs_a) \cup Values(longueurs_b)

\* the double nearest to a fraction between 0 and 1
FloatOf(fraction) == FloatQuotient(fraction.num, fraction.den)

BothSamplesNonEmpty == longueurs_a # <<>> /\ longueurs_b # <<>>

\* C14: for non-empty samples, calculer_test_ks(A, B) and calculer_test_ks(B, A)
\* report the same statistic D and the same p-value.
C14_KSTestIsSymmetric ==
    (pc = "ks" /\ BothSamplesNonEmpty) =>
        LET swapped == calculer_test_ks(longueurs_b, longueurs_a)
        IN  /\ FracEq(resultat.D, swapped.D)
            /\ FracEq(resultat.p_value, swapped.p_value)
            /\ resultat.n_a = swapped.n_b
            /\ resultat.n_b = swapped.n_a

\* two samples of different sizes whose one-sided gaps differ in the two
\* directions, with a p-value strictly between 0 and 1
C14_WitnessUnequalSamples ==
    /\ pc = "ks"
    /\ BothSamplesNonEmpty
    /\ Len(longueurs_a) # Len(longueurs_b)
    /\ ~FracEq(ks_2samp_one_sided(longueurs_a, longueurs_b).statistic,
               ks_2samp_one_sided(longueurs_b, longueurs_a).statistic)
    /\ 0 < resultat.p_value.num
    /\ resultat.p_value.num < resultat.p_value.den
    /\ FracEq(resultat.D, calculer_test_ks(longueurs_b, longueurs_a).D)

\* C15: for non-empty samples the maximal-gap record has a gap equal to D, the
\* maximum of |F_A(v) - F_B(v)| over the observed length values, lies at the
\* smallest observed length value that achieves it, and carries F_A and F_B at
\* that value.
C15_MaximalGapAtSmallestLength ==
    (pc = "ks" /\ BothSamplesNonEmpty) =>
        LET e == resultat.ecart_max
        IN  /\ e.ecart = FloatOf(resultat.D)
            /\ \A v \in ObservedLengths : FracLe(CdfGap(v), resultat.D)
            /\ e.longueur \in ObservedLengths
            /\ FracEq(CdfGap(e.longueur), resultat.D)
            /\ \A v \in ObservedLengths :
                   v < e.longueur => FracLt(CdfGap(v), resultat.D)
            /\ e.proportion_a = FloatOf(EmpiricalCdf(longueurs_a, e.longueur))
            /\ e.proportion_b = FloatOf(EmpiricalCdf(longueurs_b, e.longueur))

\* C16: for non-empty samples and n_permutations > 0 the value returned is the
\* number of permutations whose D is at least the observed D over
\* n_permutations, in [0, 1]; two runs with the same seed return the same
\* value; the value is None for an empty sample or n_permutations <= 0.
C16_PermutationPValueReproducible ==
    pc = "permutation" =>
        LET runs == Len(p_values_permutation)
            p == p_values_permutation[runs]
            D_observe == ks_2samp(longueurs_a, longueurs_b).statistic
        IN  IF BothSamplesNonEmpty /\ n_permutations > 0
            THEN /\ Len(D_permutations) = n_permutations
                 /\ p.den = n_permutations
                 /\ p.num = Cardinality({k \in 1..n_permutations :
                                            FracLe(D_observe, D_permutations[k])})
                 /\ 0 <= p.num /\ p.num <= p.den
                 /\ (random_state # NoSeed /\ runs = 2)
                        => p_values_permutation[1] = p_values_permutation[2]
            ELSE \A r \in 1..runs : p_values_permutation[r] = NoResultat

\* two seeded runs that return the same value, strictly between 0 and 1
C16_WitnessTwoSeededRuns ==
    /\ pc = "permutation"
    /\ Len(p_values_permutation) = 2
    /\ random_state # NoSeed
    /\ BothSamplesNonEmpty
    /\ n_permutations >= 2
    /\ p_values_permutation[1] = p_values_permutation[2]
    /\ 0 < p_values_permutation[2].num
    /\ p_values_permutation[2].num < p_values_permutation[2].den

(***************************************************************************)
(* Pairwise comparisons with a multiple-comparison correction.  A dict     *)
(* from modality to sample is a function; a dataframe is the sequence of   *)
(* its rows; statsmodels.stats.multitest.multipletests is computed on      *)
(* exact fractions with its default alpha = 0.05.                          *)
(***************************************************************************)
\* the modality names in sorted order
ModaliteOrder == <<"a", "b", "c", "d", "e">>

\* sorted(donnees_par_modalite)
SortedModalites(d) == SelectSeq(ModaliteOrder, LAMBDA m : m \in DOMAIN d)

\* list(itertools.combinations(modalites, 2))
Combinations2(modalites) ==
    LET n == Len(modalites)
    IN  Flatten([i \in 1..n |->
                    [j \in 1..(n - i) |-> <<modalites[i], modalites[i + j]>>]])

Alpha == Frac(1, 20)

\* pvals_corrected[pvals_corrected > 1] = 1
ClipToOne(p) == IF p.num > p.den THEN Frac(1, 1) ELSE p

FracMaxOf(S) == CHOOSE m \in S : \A o \in S : FracLe(o, m)
FracMinOf(S) == CHOOSE m \in S : \A o \in S : FracLe(m, o)

\* the position of element i in the stable ascending sort of the floats ps
SortRank(ps, i) ==
    Cardinality({j \in 1..Len(ps) : FracLt(ps[j], ps[i])})
        + Cardinality({j \in 1..(i - 1) : FracEq(ps[j], ps[i])}) + 1

\* np.argsort(ps): the indices in ascending order of the values
ArgSort(ps) ==
    [k \in 1..Len(ps) |-> CHOOSE i \in 1..Len(ps) : SortRank(ps, i) = k]

\* a numpy array or a Python list of items, and a Python float
ndarray(items) == [kind |-> "ndarray", items |-> items]
float(value) == [kind |-> "float", value |-> value]

\* multipletests(pvals, method=method): the tuple
\* (reject, pvals_corrected, alphacSidak, alphacBonf)
multipletests(pvals, method) ==
    LET n == Len(pvals)
        order == ArgSort(pvals)
        sorted_p == [k \in 1..n |-> pvals[order[k]]]
        corrected(k) ==
            CASE method = "bonferroni" ->
                     Frac(sorted_p[k].num * n, sorted_p[k].den)
              [] method = "holm" ->
                     FracMaxOf({Frac(sorted_p[j].num * (n - j + 1), sorted_p[j].den) :
                                   j \in 1..k})
              [] method = "fdr_bh" ->
                     FracMinOf({Frac(sorted_p[j].num * n, sorted_p[j].den * j) :
                                   j \in k..n})
        rejected(k) ==
            CASE method = "bonferroni" ->
                     FracLe(sorted_p[k], Frac(Alpha.num, Alpha.den * n))
              [] method = "holm" ->
                     \A j \in 1..k :
                         FracLe(sorted_p[j], Frac(Alpha.num, Alpha.den * (n - j + 1)))
              [] method = "fdr_bh" ->
                     \E j \in k..n :
                         FracLe(sorted_p[j], Frac(Alpha.num * j, Alpha.den * n))
    IN  << ndarray([i \in 1..n |-> rejected(SortRank(pvals, i))]),
           ndarray([i \in 1..n |-> ClipToOne(corrected(SortRank(pvals, i)))]),
           float([sidak |-> n]),
           float(Frac(Alpha.num, Alpha.den * n)) >>

\* x[idx] of Python: only an array or a list has items
GetItem(x, i) ==
    IF x.kind = "ndarray" THEN x.items[i]
    ELSE Raise("TypeError", "'float' object is not subscriptable")

DataFrame(lignes_df) == [kind |-> "DataFrame", lignes |-> lignes_df]

\* dataframe.sort_values(column).reset_index(drop=True)
SortValues(lignes_df, column) ==
    LET order == ArgSort([i \in 1..Len(lignes_df) |-> lignes_df[i][column]])
    IN  [k \in 1..Len(lignes_df) |-> lignes_df[order[k]]]

\* the for loop of comparer_modalites_par_paires over the pairs
RECURSIVE ks_pairs_loop(_, _)
ks_pairs_loop(d, pairs) ==
    IF pairs = <<>> THEN <<>>
    ELSE LET modalite_a == Head(pairs)[1]
             modalite_b == Head(pairs)[2]
             la == d[modalite_a]
             lb == d[modalite_b]
         IN  (IF la = <<>> \/ lb = <<>> THEN <<>>
              ELSE LET res == ks_2samp(la, lb)
                   IN  << [modalite_a |-> modalite_a,
                           modalite_b |-> modalite_b,
                           D |-> res.statistic,
                           p_brute |-> res.pvalue,
                           n_a |-> Len(la),
                           n_b |-> Len(lb)] >>)
                 \o ks_pairs_loop(d, Tail(pairs))

\* comparer_modalites_par_paires that leaves the rows in the order of the pairs
comparer_modalites_unsorted(d, methode) ==
    LET modalites == SortedModalites(d)
        rows_ks == ks_pairs_loop(d, Combinations2(modalites))
    IN  IF Len(modalites) < 2 \/ rows_ks = <<>> THEN DataFrame(<<>>)
        ELSE IF methode # NoMethod
        THEN LET mt == multipletests([i \in 1..Len(rows_ks) |-> rows_ks[i].p_brute],
                                     methode)
                 rejected == mt[1]
                 p_corrigees == mt[2]
             IN  DataFrame([i \in 1..Len(rows_ks) |->
                               rows_ks[i] @@ [p_ajustee |-> p_corrigees.items[i],
                                              rejette |-> rejected.items[i]]])
        ELSE DataFrame([i \in 1..Len(rows_ks) |->
                           rows_ks[i] @@ [p_ajustee |-> rows_ks[i].p_brute,
                                          rejette |-> FALSE]])

comparer_modalites_par_paires(d, methode) ==
    LET modalites == SortedModalites(d)
        rows_ks == ks_pairs_loop(d, Combinations2(modalites))
    IN  IF Len(modalites) < 2 \/ rows_ks = <<>> THEN DataFrame(<<>>)
        ELSE IF methode # NoMethod
        THEN LET mt == multipletests([i \in 1..Len(rows_ks) |-> rows_ks[i].p_brute],
                                     methode)
                 rejected == mt[1]
                 p_corrigees == mt[2]
                 with_p == [i \in 1..Len(rows_ks) |->
                               rows_ks[i] @@ [p_ajustee |-> p_corrigees.items[i],
                                              rejette |-> rejected.items[i]]]
             IN  DataFrame(SortValues(with_p, "p_ajustee"))
        ELSE LET with_p == [i \in 1..Len(rows_ks) |->
                               rows_ks[i] @@ [p_ajustee |-> rows_ks[i].p_brute,
                                              rejette |-> FALSE]]
             IN  DataFrame(SortValues(with_p, "p_brute"))

(***************************************************************************)
(* Inputs of the pairwise Kolmogorov-Smirnov comparisons.                  *)
(***************************************************************************)
MaxModalites == 3

Modalites == {ModaliteOrder[i] : i \in 1..MaxModalites}

PairSamples ==
    { <<>>, <<1>>, <<3>>, <<1, 2>>, <<2, 3>>, <<1, 1, 2, 3>>, <<2, 4, 4, 4>> }

CorrectionMethods == {NoMethod, "bonferroni", "holm", "fdr_bh"}

InitPaires ==
    /\ pc = "input"
    /\ donnees_par_modalite \in UNION {[M -> PairSamples] : M \in SUBSET Modalites}
    /\ methode_correction \in CorrectionMethods
    /\ p_values_ttest = <<>>
    /\ resultats_df = NoResultat
    /\ text = <<>>
    /\ connectors = <<>>
    /\ segmentation_mode = "connecteurs"
    /\ segments = <<>>
    /\ lengths = <<>>
    /\ longueurs = <<>>
    /\ seuil_segment_court = 0
    /\ resume = NoResume
    /\ rows = <<>>
    /\ idx = 1
    /\ lignes = <<>>
    /\ reponses_ignorees = 0
    /\ LoadIdle
    /\ KSIdle
    /\ MWIdle
    /\ FriedIdle
    /\ SpacyIdle
    /\ AnnotIdle
    /\ LengthsIdle

ComparerModalitesParPaires ==
    /\ pc = "input"
    /\ resultats_df' = comparer_modalites_par_paires(donnees_par_modalite,
                                                     methode_correction)
    /\ pc' = "paires"
    /\ UNCHANGED <<donnees_par_modalite, methode_correction, p_values_ttest,
                   segVars, resVars, rowVars, loadVars, ksVars, mwVars, friedVars, spacyVars, annotVars, lenVars>>

NextPaires == ComparerModalitesParPaires

SpecPaires == InitPaires /\ [][NextPaires]_vars

\* the rows are in ascending order of the column
SortedBy(lignes_df, column) ==
    \A i \in 1..(Len(lignes_df) - 1) :
        FracLe(lignes_df[i][column], lignes_df[i + 1][column])

\* the unordered pairs of modalities whose two samples are non-empty
ComparablePairs ==
    {pr \in Modalites \X Modalites :
        /\ pr[1] \in DOMAIN donnees_par_modalite
        /\ pr[2] \in DOMAIN donnees_par_modalite
        /\ \E i, j \in 1..Len(ModaliteOrder) :
               i < j /\ ModaliteOrder[i] = pr[1] /\ ModaliteOrder[j] = pr[2]
        /\ donnees_par_modalite[pr[1]] # <<>>
        /\ donnees_par_modalite[pr[2]] # <<>>}

\* C17: comparer_modalites_par_paires returns one row for every unordered pair
\* of modalities with two non-empty samples, modalite_a before modalite_b,
\* with D, raw p, adjusted p, the sample sizes and a boolean flag; the rows are
\* in ascending order of the adjusted p with a correction, of the raw p
\* without; without correction the adjusted p is the raw p and the flag false.
C17_OneSortedRowPerPair ==
    pc = "paires" =>
        LET df == resultats_df.lignes
            d == donnees_par_modalite
        IN  /\ resultats_df.kind = "DataFrame"
            /\ {<<df[i].modalite_a, df[i].modalite_b>> : i \in 1..Len(df)}
                   = ComparablePairs
            /\ Len(df) = Cardinality(ComparablePairs)
            /\ \A i \in 1..Len(df) :
                   LET ks == calculer_test_ks(d[df[i].modalite_a], d[df[i].modalite_b])
                   IN  /\ df[i].D = ks.D
                       /\ df[i].p_brute = ks.p_value
                       /\ df[i].n_a = Len(d[df[i].modalite_a])
                       /\ df[i].n_b = Len(d[df[i].modalite_b])
                       /\ df[i].rejette \in BOOLEAN
                       /\ 0 <= df[i].p_ajustee.num
                       /\ df[i].p_ajustee.num <= df[i].p_ajustee.den
                       /\ FracLe(df[i].p_brute, df[i].p_ajustee)
                       /\ methode_correction = NoMethod =>
                              df[i].p_ajustee = df[i].p_brute /\ ~df[i].rejette
            /\ IF methode_correction # NoMethod
               THEN SortedBy(df, "p_ajustee")
               ELSE SortedBy(df, "p_brute")

\* three modalities compared under a correction, a fourth pair left out for an
\* empty sample or not: the rows are not in the order of the pairs
C17_WitnessReorderedRows ==
    /\ pc = "paires"
    /\ methode_correction # NoMethod
    /\ Len(resultats_df.lignes) = 3
    /\ resultats_df.lignes[1].modalite_a # "a"
    /\ FracLt(resultats_df.lignes[1].p_ajustee, resultats_df.lignes[3].p_ajustee)
    /\ \E i \in 1..3 : FracLt(resultats_df.lignes[i].p_brute,
                              resultats_df.lignes[i].p_ajustee)

(***************************************************************************)
(* Tests on an indicator measured per response: Mann-Whitney and t-test    *)
(* post-hoc comparisons, one-way ANOVA and Kruskal-Wallis.  A value of a   *)
(* sample is a float, NaN or None.                                         *)
(***************************************************************************)
FloatNaN == [kind |-> "nan"]
NoValue == [kind |-> "None"]

\* [v for v in valeurs if v is not None and not np.isnan(v)]
propres(valeurs) ==
    SelectSeq(valeurs, LAMBDA v : v.kind # "None" /\ v.kind # "nan")

\* mannwhitneyu(x, y, alternative="two-sided") on samples without ties and
\* with at most 8 values: U of x, and the exact p-value
\* 2 * P(U >= max(U1, U2)) over the arrangements of the ranks
mannwhitneyu(x, y) ==
    LET n1 == Len(x)
        n2 == Len(y)
        U1 == Cardinality({ij \in (1..n1) \X (1..n2) : x[ij[1]].value > y[ij[2]].value})
        U == Max({U1, n1 * n2 - U1})
        arrangements == {S \in SUBSET (1..(n1 + n2)) : Cardinality(S) = n1}
        UOf(S) == Cardinality({rs \in S \X ((1..(n1 + n2)) \ S) : rs[1] > rs[2]})
        tail == Cardinality({S \in arrangements : UOf(S) >= U})
    IN  [statistic |-> U1,
         pvalue |-> ClipToOne(Frac(2 * tail, Cardinality(arrangements)))]

effectuer_test_mann_whitney(valeurs_a, valeurs_b) ==
    LET propres_a == propres(valeurs_a)
        propres_b == propres(valeurs_b)
        res == mannwhitneyu(propres_a, propres_b)
    IN  IF Len(propres_a) = 0 \/ Len(propres_b) = 0 THEN NoResultat
        ELSE [statistique |-> res.statistic,
              p_value |-> res.pvalue,
              n_a |-> Len(propres_a),
              n_b |-> Len(propres_b)]

\* the for loop of comparaisons_post_hoc over the pairs
RECURSIVE mw_pairs_loop(_, _)
mw_pairs_loop(d, pairs) ==
    IF pairs = <<>> THEN <<>>
    ELSE LET modalite_a == Head(pairs)[1]
             modalite_b == Head(pairs)[2]
             res == effectuer_test_mann_whitney(d[modalite_a], d[modalite_b])
         IN  (IF res = NoResultat THEN <<>>
              ELSE << [modalite_a |-> modalite_a,
                       modalite_b |-> modalite_b,
                       statistique |-> res.statistique,
                       p_brute |-> res.p_value,
                       n_a |-> res.n_a,
                       n_b |-> res.n_b] >>)
                 \o mw_pairs_loop(d, Tail(pairs))

\* x[idx] of Python raises TypeError on a value that has no items
Subscriptable(x) == x.kind = "ndarray"

comparaisons_post_hoc(d, methode) ==
    LET modalites == SortedModalites(d)
        rows_mw == mw_pairs_loop(d, Combinations2(modalites))
        p_values == [i \in 1..Len(rows_mw) |-> rows_mw[i].p_brute]
        mt == multipletests(p_values, methode)
        p_ajustees == IF methode # NoMethod THEN mt[2] ELSE ndarray(p_values)
        rejets == IF methode # NoMethod THEN mt[4]
                  ELSE ndarray([i \in 1..Len(rows_mw) |-> FALSE])
    IN  IF Len(modalites) < 2 \/ rows_mw = <<>> THEN DataFrame(<<>>)
        ELSE IF ~Subscriptable(p_ajustees) \/ ~Subscriptable(rejets)
        THEN Raise("TypeError", "'float' object is not subscriptable")
        ELSE DataFrame([i \in 1..Len(rows_mw) |->
                           rows_mw[i] @@ [p_ajustee |-> p_ajustees.items[i],
                                          rejette |-> rejets.items[i]]])

\* ttest_ind(valeurs_a, valeurs_b, equal_var=equal_var): the statistic stands
\* for itself, the p-value is the one given for the pair
ttest_ind(valeurs_a, valeurs_b, pvalue) ==
    [statistic |-> [t_of |-> <<valeurs_a, valeurs_b>>], pvalue |-> pvalue]

\* the for loop of tests_post_hoc_ttest over the pairs
RECURSIVE tt_pairs_loop(_, _, _)
tt_pairs_loop(d, pairs, pvalues) ==
    IF pairs = <<>> THEN <<>>
    ELSE LET modalite_a == Head(pairs)[1]
             modalite_b == Head(pairs)[2]
             valeurs_a == propres(d[modalite_a])
             valeurs_b == propres(d[modalite_b])
             res == ttest_ind(valeurs_a, valeurs_b, pvalues[Head(pairs)])
         IN  (IF Len(valeurs_a) < 2 \/ Len(valeurs_b) < 2 THEN <<>>
              ELSE << [modalite_a |-> modalite_a,
                       modalite_b |-> modalite_b,
                       statistique |-> res.statistic,
                       p_brute |-> res.pvalue,
                       n_a |-> Len(valeurs_a),
                       n_b |-> Len(valeurs_b)] >>)
                 \o tt_pairs_loop(d, Tail(pairs), pvalues)

tests_post_hoc_ttest(d, methode, pvalues) ==
    LET modalites == SortedModalites(d)
        resultats == tt_pairs_loop(d, Combinations2(modalites), pvalues)
        mt == multipletests([i \in 1..Len(resultats) |-> resultats[i].p_brute], methode)
        p_ajustees == IF methode # NoMethod THEN mt[2].items
                      ELSE [i \in 1..Len(resultats) |-> resultats[i].p_brute]
        with_p == [i \in 1..Len(resultats) |->
                      resultats[i] @@ [p_ajustee |-> p_ajustees[i]]]
    IN  IF resultats = <<>> THEN DataFrame(<<>>)
        ELSE DataFrame(SortValues(with_p, "p_ajustee"))

\* the samples that are left after the NaN and None values are removed
NonEmptySamples(d) ==
    LET modalites == SortedModalites(d)
    IN  SelectSeq([i \in 1..Len(modalites) |-> propres(d[modalites[i]])],
                  LAMBDA echantillon : echantillon # <<>>)

\* sum(len(donnees_par_modalite[m]) for m in modalites)
SumLen(d) ==
    LET modalites == SortedModalites(d)
    IN  Sum([i \in 1..Len(modalites) |-> Len(d[modalites[i]])])

\* f_oneway(*valeurs) and kruskal(*valeurs): a statistic and a p-value that
\* stand for themselves
f_oneway(valeurs) == [statistic |-> [F_of |-> valeurs], pvalue |-> [p_F_of |-> valeurs]]
kruskal(valeurs) == [statistic |-> [H_of |-> valeurs], pvalue |-> [p_H_of |-> valeurs]]

\* effectuer_test_anova that tests the samples as they are given
effectuer_test_anova_unfiltered(d) ==
    LET modalites == SortedModalites(d)
        valeurs == SelectSeq([i \in 1..Len(modalites) |-> d[modalites[i]]],
                             LAMBDA echantillon : echantillon # <<>>)
    IN  IF Len(valeurs) < 2 THEN NoResultat
        ELSE [statistique |-> f_oneway(valeurs).statistic,
              p_value |-> f_oneway(valeurs).pvalue,
              ddl_inter |-> Len(valeurs) - 1,
              ddl_intra |-> SumLen(d) - Len(valeurs),
              effectif_total |-> SumLen(d),
              nb_groupes |-> Len(valeurs)]

effectuer_test_anova(d) ==
    LET valeurs == NonEmptySamples(d)
        res == f_oneway(valeurs)
        effectif_total == SumLen(d)
        nb_groupes == Len(valeurs)
    IN  IF Len(valeurs) < 2 THEN NoResultat
        ELSE [statistique |-> res.statistic,
              p_value |-> res.pvalue,
              ddl_inter |-> nb_groupes - 1,
              ddl_intra |-> effectif_total - nb_groupes,
              effectif_total |-> effectif_total,
              nb_groupes |-> nb_groupes]

effectuer_test_kruskal(d) ==
    LET valeurs == NonEmptySamples(d)
        res == kruskal(valeurs)
    IN  IF Len(valeurs) < 2 THEN NoResultat
        ELSE [statistique |-> res.statistic,
              p_value |-> res.pvalue,
              effectif_total |-> SumLen(d)]

(***************************************************************************)
(* Inputs of the tests: samples whose numbers are all different, for which *)
(* mannwhitneyu computes the exact p-value.                                *)
(***************************************************************************)
TestSamples ==
    { <<>>, <<FloatNaN>>,
      <<float(1), float(4)>>, <<float(2), float(3)>>,
      <<float(5), FloatNaN, float(6)>>, <<NoValue, float(7)>> }

NoTies(d) ==
    \A m1, m2 \in DOMAIN d :
        m1 # m2 => Values(propres(d[m1])) \cap Values(propres(d[m2])) = {}

\* the pairs of modalities tests_post_hoc_ttest hands to ttest_ind
TTestPairs(d) ==
    {pr \in Values(Combinations2(SortedModalites(d))) :
        Len(propres(d[pr[1]])) >= 2 /\ Len(propres(d[pr[2]])) >= 2}

\* the p-values ttest_ind may return
TTestPValues == {Frac(1, 100), Frac(1, 50), Frac(1, 2)}

InitTests ==
    /\ pc = "input"
    /\ donnees_par_modalite \in
           {d \in UNION {[M -> TestSamples] : M \in SUBSET Modalites} : NoTies(d)}
    /\ methode_correction \in CorrectionMethods
    /\ p_values_ttest = <<>>
    /\ resultats_df = NoResultat
    /\ text = <<>>
    /\ connectors = <<>>
    /\ segmentation_mode = "connecteurs"
    /\ segments = <<>>
    /\ lengths = <<>>
    /\ longueurs = <<>>
    /\ seuil_segment_court = 0
    /\ resume = NoResume
    /\ rows = <<>>
    /\ idx = 1
    /\ lignes = <<>>
    /\ reponses_ignorees = 0
    /\ LoadIdle
    /\ KSIdle
    /\ MWIdle
    /\ FriedIdle
    /\ SpacyIdle
    /\ AnnotIdle
    /\ LengthsIdle

ComparaisonsPostHoc ==
    /\ pc = "input"
    /\ resultats_df' = comparaisons_post_hoc(donnees_par_modalite, methode_correction)
    /\ pc' = "post_hoc"
    /\ UNCHANGED <<donnees_par_modalite, methode_correction, p_values_ttest,
                   segVars, resVars, rowVars, loadVars, ksVars, mwVars, friedVars, spacyVars, annotVars, lenVars>>

TestsPostHocTtest ==
    /\ pc = "input"
    /\ \E pvalues \in [TTestPairs(donnees_par_modalite) -> TTestPValues] :
           /\ p_values_ttest' = pvalues
           /\ resultats_df' = tests_post_hoc_ttest(donnees_par_modalite,
                                                   methode_correction, pvalues)
    /\ pc' = "ttest"
    /\ UNCHANGED <<donnees_par_modalite, methode_correction,
                   segVars, resVars, rowVars, loadVars, ksVars, mwVars, friedVars, spacyVars, annotVars, lenVars>>

EffectuerTestAnova ==
    /\ pc = "input"
    /\ resultats_df' = effectuer_test_anova(donnees_par_modalite)
    /\ pc' = "anova"
    /\ UNCHANGED <<donnees_par_modalite, methode_correction, p_values_ttest,
                   segVars, resVars, rowVars, loadVars, ksVars, mwVars, friedVars, spacyVars, annotVars, lenVars>>

EffectuerTestKruskal ==
    /\ pc = "input"
    /\ resultats_df' = effectuer_test_kruskal(donnees_par_modalite)
    /\ pc' = "kruskal"
    /\ UNCHANGED <<donnees_par_modalite, methode_correction, p_values_ttest,
                   segVars, resVars, rowVars, loadVars, ksVars, mwVars, friedVars, spacyVars, annotVars, lenVars>>

NextTests ==
    \/ ComparaisonsPostHoc
    \/ TestsPostHocTtest
    \/ EffectuerTestAnova
    \/ EffectuerTestKruskal

SpecTests == InitTests /\ [][NextTests]_vars

\* the values of a sample that are numbers
TestedValues(m) ==
    {i \in 1..Len(donnees_par_modalite[m]) :
        donnees_par_modalite[m][i].kind = "float"}

\* the groups that have at least one number
TestedGroups == {m \in DOMAIN donnees_par_modalite : TestedValues(m) # {}}

\* C18: tests_post_hoc_ttest and comparaisons_post_hoc return their rows in
\* ascending order of the effective p-value, the adjusted p-value with a
\* correction method and the raw p-value without.
C18_PostHocRowsSorted ==
    (pc \in {"ttest", "post_hoc"} /\ resultats_df.kind = "DataFrame") =>
        IF methode_correction # NoMethod
        THEN SortedBy(resultats_df.lignes, "p_ajustee")
        ELSE SortedBy(resultats_df.lignes, "p_brute")

\* C19: comparaisons_post_hoc with a correction method over at least two
\* non-empty groups completes without raising and every row carries the pair,
\* the statistic, the raw and adjusted p-values, the two sample sizes and a
\* boolean flag equal to the reject decision of the correction for the pair.
C19_CorrectedPostHocCompletes ==
    (/\ pc = "post_hoc"
     /\ methode_correction # NoMethod
     /\ Cardinality(TestedGroups) >= 2) =>
        /\ resultats_df.kind = "DataFrame"
        /\ LET df == resultats_df.lignes
               mt == multipletests([i \in 1..Len(df) |-> df[i].p_brute],
                                   methode_correction)
           IN  /\ Len(df) = (Cardinality(TestedGroups)
                               * (Cardinality(TestedGroups) - 1)) \div 2
               /\ \A i \in 1..Len(df) :
                      /\ {df[i].modalite_a, df[i].modalite_b} \subseteq TestedGroups
                      /\ df[i].n_a = Cardinality(TestedValues(df[i].modalite_a))
                      /\ df[i].n_b = Cardinality(TestedValues(df[i].modalite_b))
                      /\ df[i].statistique \in Nat
                      /\ df[i].p_ajustee = mt[2].items[i]
                      /\ df[i].rejette = mt[1].items[i]

\* C20: effectuer_test_anova and effectuer_test_kruskal report figures of the
\* observations tested: N is the number of non-NaN values of the groups, k the
\* number of groups with at least one such value, the degrees of freedom are
\* k - 1 between the groups and N - k within them; fewer than two such groups
\* give no result.
C20_FiguresDescribeTestedObservations ==
    pc \in {"anova", "kruskal"} =>
        LET N == Sum([i \in 1..Len(ModaliteOrder) |->
                         IF ModaliteOrder[i] \in TestedGroups
                         THEN Cardinality(TestedValues(ModaliteOrder[i]))
                         ELSE 0])
            k == Cardinality(TestedGroups)
        IN  IF k < 2 THEN resultats_df = NoResultat
            ELSE /\ resultats_df # NoResultat
                 /\ resultats_df.effectif_total = N
                 /\ pc = "anova" =>
                        /\ resultats_df.nb_groupes = k
                        /\ resultats_df.ddl_inter = k - 1
                        /\ resultats_df.ddl_intra = N - k

(***************************************************************************)
(* The tests called on data that may be insufficient: the global tests and *)
(* the Kolmogorov-Smirnov test as above, and the Mann-Whitney test called  *)
(* on two samples.                                                         *)
(***************************************************************************)
InitMannWhitney ==
    /\ pc = "input"
    /\ echantillon_a \in TestSamples
    /\ echantillon_b \in TestSamples
    /\ Values(propres(echantillon_a)) \cap Values(propres(echantillon_b)) = {}
    /\ HashIdle
    /\ LoadIdle
    /\ KSIdle
    /\ PairIdle
    /\ FriedIdle
    /\ SpacyIdle
    /\ AnnotIdle
    /\ LengthsIdle

EffectuerTestMannWhitney ==
    /\ pc = "input"
    /\ resultat' = effectuer_test_mann_whitney(echantillon_a, echantillon_b)
    /\ pc' = "mann_whitney"
    /\ UNCHANGED <<longueurs_a, longueurs_b, n_permutations, random_state,
                   p_values_permutation, D_permutations,
                   segVars, resVars, rowVars, loadVars, pairVars, mwVars, friedVars, spacyVars, annotVars, lenVars>>

InitInsufficient == InitTests \/ InitKS \/ InitMannWhitney

NextInsufficient ==
    \/ EffectuerTestAnova
    \/ EffectuerTestKruskal
    \/ CalculerTestKS
    \/ EffectuerTestMannWhitney

SpecInsufficient == InitInsufficient /\ [][NextInsufficient]_vars

\* the number of values of the sample that are neither NaN nor None
NonNaNCount(valeurs) ==
    Cardinality({i \in 1..Len(valeurs) : valeurs[i].kind = "float"})

\* C21: insufficient data is reported by None and never by an exception:
\* effectuer_test_anova and effectuer_test_kruskal return None exactly when
\* fewer than two groups hold a non-NaN value, effectuer_test_mann_whitney
\* exactly when a group is empty after the NaN values are removed, and
\* calculer_test_ks exactly when one of the lists is empty.
C21_NoneExactlyWhenInsufficient ==
    /\ pc \in {"anova", "kruskal"} =>
           /\ (resultats_df = NoResultat) <=> (Cardinality(TestedGroups) < 2)
           /\ resultats_df # NoResultat => "effectif_total" \in DOMAIN resultats_df
    /\ pc = "mann_whitney" =>
           /\ (resultat = NoResultat)
                  <=> (NonNaNCount(echantillon_a) = 0 \/ NonNaNCount(echantillon_b) = 0)
           /\ resultat # NoResultat => "p_value" \in DOMAIN resultat
    /\ pc = "ks" =>
           /\ (resultat = NoResultat) <=> (longueurs_a = <<>> \/ longueurs_b = <<>>)
           /\ resultat # NoResultat => "p_value" \in DOMAIN resultat

\* a group that holds only NaN values next to one tested group: no result
C21_WitnessGroupOfNaNOnly ==
    /\ pc = "anova"
    /\ resultats_df = NoResultat
    /\ Cardinality(DOMAIN donnees_par_modalite) = 2
    /\ \A m \in DOMAIN donnees_par_modalite : donnees_par_modalite[m] # <<>>
    /\ Cardinality(TestedGroups) = 1

(***************************************************************************)
(* The Friedman test on a paired table blocks x models (friedeman.py).     *)
(* A row of indicateurs_reponses holds the block, the model and the value  *)
(* of the indicator; a dataframe indexed by the blocks is the sequence of  *)
(* its index, the sequence of its columns and its cells.                   *)
(***************************************************************************)
\* the block and model labels in sorted order
BlocOrder == <<"p1", "p2", "p3", "p4">>
ModeleOrder == <<"m1", "m2", "m3">>

\* pd.DataFrame()
EmptyTable == [index |-> <<>>, columns |-> <<>>, cells |-> <<>>]

\* dataframe.empty
TableEmpty(t) == t.index = <<>> \/ t.columns = <<>>

\* the values of the indicator in the rows of one block and one model
GroupValues(rows_df, b, m) ==
    LET group == SelectSeq(rows_df, LAMBDA r : r.bloc = b /\ r.modele = m)
    IN  [i \in 1..Len(group) |-> group[i].valeur]

\* .agg(np.mean) or .agg(np.median) of a group
Aggregate(xs, methode) ==
    IF methode = "moyenne" THEN Frac(Sum(xs), Len(xs)) ELSE Median(xs)

\* groupby([variable_bloc, variable_modele])[indicateur].agg(...)
\*     .unstack(variable_modele).sort_index()
Unstack(rows_df, methode) ==
    LET blocs == SelectSeq(BlocOrder, LAMBDA b : \E i \in 1..Len(rows_df) :
                                                    rows_df[i].bloc = b)
        modeles == SelectSeq(ModeleOrder, LAMBDA m : \E i \in 1..Len(rows_df) :
                                                        rows_df[i].modele = m)
    IN  [index |-> blocs,
         columns |-> modeles,
         cells |-> [b \in Values(blocs) |-> [m \in Values(modeles) |->
                       IF GroupValues(rows_df, b, m) = <<>> THEN FloatNaN
                       ELSE Aggregate(GroupValues(rows_df, b, m), methode)]]]

\* tableau.dropna(axis=0, how="all"): only the rows without any value go
DropNaAll(t) ==
    LET kept == SelectSeq(t.index, LAMBDA b : \E m \in Values(t.columns) :
                                                 t.cells[b][m] # FloatNaN)
    IN  [index |-> kept,
         columns |-> t.columns,
         cells |-> [b \in Values(kept) |-> t.cells[b]]]

\* tableau.dropna(axis=0, how="any")
DropNaAny(t) ==
    LET kept == SelectSeq(t.index, LAMBDA b : \A m \in Values(t.columns) :
                                                 t.cells[b][m] # FloatNaN)
    IN  [index |-> kept,
         columns |-> t.columns,
         cells |-> [b \in Values(kept) |-> t.cells[b]]]

construire_tableau_apparie(rows_df, methode) ==
    IF rows_df = <<>>
    THEN [tableau |-> EmptyTable, prompts_initiaux |-> <<>>, prompts_exclus |-> <<>>]
    ELSE LET tableau == Unstack(rows_df, methode)
             tableau_complet == DropNaAny(tableau)
         IN  [tableau |-> tableau_complet,
              prompts_initiaux |-> tableau.index,
              prompts_exclus |->
                  SelectSeq(BlocOrder,
                            LAMBDA b : b \in Values(tableau.index)
                                           \ Values(tableau_complet.index))]

\* tableau_apparie[colonne].to_numpy()
ColumnOf(t, m) == [i \in 1..Len(t.index) |-> t.cells[t.index[i]][m]]

\* friedmanchisquare(*valeurs) (scipy): at least three samples are required;
\* the statistic and the p-value stand for themselves
friedmanchisquare(valeurs) ==
    IF Len(valeurs) < 3
    THEN Raise("ValueError",
               "At least 3 sets of samples must be given for Friedman test")
    ELSE [kind |-> "FriedmanchisquareResult",
          statistic |-> [chi2_of |-> valeurs], pvalue |-> [p_chi2_of |-> valeurs]]

calculer_statistique_friedman(t) ==
    IF TableEmpty(t) \/ Len(t.index) < 2 \/ Len(t.columns) < 2 THEN NoResultat
    ELSE LET valeurs == [j \in 1..Len(t.columns) |-> ColumnOf(t, t.columns[j])]
             res == friedmanchisquare(valeurs)
             n_prompts == Len(t.index)
             k_modeles == Len(t.columns)
         IN  IF res.kind = "raise" THEN res
             ELSE [kind |-> "dict",
                   statistique |-> res.statistic,
                   p_value |-> res.pvalue,
                   n_prompts |-> n_prompts,
                   k_modeles |-> k_modeles,
                   kendall_w |-> FloatDiv(res.statistic,
                                          Frac(n_prompts * (k_modeles - 1), 1))]

\* wilcoxon(valeurs_a, valeurs_b) (scipy): fails when all the differences are
\* zero; the statistic stands for itself, the p-value is the one given
wilcoxon(x, y, pvalue) ==
    IF \A i \in 1..Len(x) : FracEq(x[i], y[i])
    THEN Raise("ValueError",
               "zero_method 'wilcox' and 'pratt' do not work if x - y is zero for all elements.")
    ELSE [kind |-> "WilcoxonResult", statistic |-> [W_of |-> <<x, y>>], pvalue |-> pvalue]

\* the for loop of tests_post_hoc_wilcoxon over the pairs of columns, without
\* its try: a failed test ends the loop
RECURSIVE wilcoxon_loop_untried(_, _, _)
wilcoxon_loop_untried(t, pairs, pvalues) ==
    IF pairs = <<>> THEN <<>>
    ELSE LET x == ColumnOf(t, Head(pairs)[1])
             y == ColumnOf(t, Head(pairs)[2])
         IN  IF Len(x) = 0 \/ Len(y) = 0
             THEN wilcoxon_loop_untried(t, Tail(pairs), pvalues)
             ELSE IF wilcoxon(x, y, Zero).kind = "raise" THEN <<>>
             ELSE << [modele_a |-> Head(pairs)[1],
                      modele_b |-> Head(pairs)[2],
                      statistique |-> wilcoxon(x, y, pvalues[Head(pairs)]).statistic,
                      p_brute |-> wilcoxon(x, y, pvalues[Head(pairs)]).pvalue,
                      n |-> Len(x)] >>
                      \o wilcoxon_loop_untried(t, Tail(pairs), pvalues)

\* the for loop of tests_post_hoc_wilcoxon over the pairs of columns
RECURSIVE wilcoxon_loop(_, _, _)
wilcoxon_loop(t, pairs, pvalues) ==
    IF pairs = <<>> THEN <<>>
    ELSE LET x == ColumnOf(t, Head(pairs)[1])
             y == ColumnOf(t, Head(pairs)[2])
         IN  (IF Len(x) = 0 \/ Len(y) = 0 THEN <<>>
              ELSE IF wilcoxon(x, y, Zero).kind = "raise" THEN <<>>
              ELSE << [modele_a |-> Head(pairs)[1],
                       modele_b |-> Head(pairs)[2],
                       statistique |-> wilcoxon(x, y, pvalues[Head(pairs)]).statistic,
                       p_brute |-> wilcoxon(x, y, pvalues[Head(pairs)]).pvalue,
                       n |-> Len(x)] >>)
                 \o wilcoxon_loop(t, Tail(pairs), pvalues)

tests_post_hoc_wilcoxon(t, methode, pvalues) ==
    LET resultats == wilcoxon_loop(t, Combinations2(t.columns), pvalues)
        mt == multipletests([i \in 1..Len(resultats) |-> resultats[i].p_brute], methode)
        p_ajustees == IF methode # NoMethod THEN mt[2].items
                      ELSE [i \in 1..Len(resultats) |-> resultats[i].p_brute]
        with_p == [i \in 1..Len(resultats) |->
                      resultats[i] @@ [p_ajustee |-> p_ajustees[i]]]
    IN  IF TableEmpty(t) \/ Len(t.columns) < 2 \/ resultats = <<>> THEN DataFrame(<<>>)
        ELSE DataFrame(SortValues(with_p, "p_ajustee"))

(***************************************************************************)
(* Inputs of the Friedman test: for every block and model the values of    *)
(* the rows of that block and model, the rows being grouped by block and   *)
(* model.                                                                  *)
(***************************************************************************)
MaxBlocs == 2

Blocs == {BlocOrder[i] : i \in 1..MaxBlocs}
Modeles == Values(ModeleOrder)

GroupSamples == { <<>>, <<1>>, <<1, 1, 4>> }

\* the rows of the dataframe that holds the given groups
RowsOf(groups) ==
    Flatten([i \in 1..Len(BlocOrder) |->
        Flatten([j \in 1..Len(ModeleOrder) |->
            IF BlocOrder[i] \in Blocs
            THEN [k \in 1..Len(groups[BlocOrder[i]][ModeleOrder[j]]) |->
                     [bloc |-> BlocOrder[i],
                      modele |-> ModeleOrder[j],
                      valeur |-> groups[BlocOrder[i]][ModeleOrder[j]][k]]]
            ELSE <<>>])])

\* the pairs of models tests_post_hoc_wilcoxon gets a p-value for
WilcoxonPairs(t) ==
    {pr \in Values(Combinations2(t.columns)) :
        /\ t.index # <<>>
        /\ wilcoxon(ColumnOf(t, pr[1]), ColumnOf(t, pr[2]), Zero).kind # "raise"}

\* the paired differences wilcoxon works on
Differences(t, pr) ==
    [i \in 1..Len(t.index) |->
        LET x == t.cells[t.index[i]][pr[1]]
            y == t.cells[t.index[i]][pr[2]]
        IN  Frac(x.num * y.den - y.num * x.den, x.den * y.den)]

\* two pairs with the same differences, or with opposite differences, are
\* the same two-sided test
SameTest(t, pr, qr) ==
    \/ \A i \in 1..Len(t.index) :
           FracEq(Differences(t, pr)[i], Differences(t, qr)[i])
    \/ \A i \in 1..Len(t.index) :
           FracEq(Differences(t, pr)[i],
                  Frac(0 - Differences(t, qr)[i].num, Differences(t, qr)[i].den))

\* the p-values wilcoxon may return
WilcoxonPValues == {Frac(1, 100), Frac(1, 2)}

InitFriedman ==
    /\ pc = "input"
    /\ indicateurs_reponses \in {RowsOf(g) : g \in [Blocs -> [Modeles -> GroupSamples]]}
    /\ methode_agregation \in {"moyenne", "mediane"}
    /\ sortie_tableau = NoResultat
    /\ resultat_friedman = NoResultat
    /\ p_values_wilcoxon = <<>>
    /\ HashIdle
    /\ LoadIdle
    /\ KSIdle
    /\ PairIdle
    /\ MWIdle
    /\ SpacyIdle
    /\ AnnotIdle
    /\ LengthsIdle

ConstruireTableauApparie ==
    /\ pc = "input"
    /\ sortie_tableau' = construire_tableau_apparie(indicateurs_reponses,
                                                    methode_agregation)
    /\ pc' = "tableau"
    /\ UNCHANGED <<indicateurs_reponses, methode_agregation, resultat_friedman,
                   p_values_wilcoxon,
                   segVars, resVars, rowVars, loadVars, ksVars, pairVars, mwVars, spacyVars, annotVars, lenVars>>

CalculerStatistiqueFriedman ==
    /\ pc = "tableau"
    /\ resultat_friedman' = calculer_statistique_friedman(sortie_tableau.tableau)
    /\ pc' = "friedman"
    /\ UNCHANGED <<indicateurs_reponses, methode_agregation, sortie_tableau,
                   p_values_wilcoxon,
                   segVars, resVars, rowVars, loadVars, ksVars, pairVars, mwVars, spacyVars, annotVars, lenVars>>

TestsPostHocWilcoxon ==
    /\ pc = "tableau"
    /\ \E methode \in CorrectionMethods :
       \E pvalues \in [WilcoxonPairs(sortie_tableau.tableau) -> WilcoxonPValues] :
           /\ \A pr, qr \in WilcoxonPairs(sortie_tableau.tableau) :
                  SameTest(sortie_tableau.tableau, pr, qr) => pvalues[pr] = pvalues[qr]
           /\ methode_correction' = methode
           /\ p_values_wilcoxon' = pvalues
           /\ resultats_df' = tests_post_hoc_wilcoxon(sortie_tableau.tableau,
                                                      methode, pvalues)
    /\ pc' = "wilcoxon"
    /\ UNCHANGED <<indicateurs_reponses, methode_agregation, sortie_tableau,
                   resultat_friedman, donnees_par_modalite, p_values_ttest,
                   segVars, resVars, rowVars, loadVars, ksVars, mwVars, spacyVars, annotVars, lenVars>>

NextFriedman ==
    \/ ConstruireTableauApparie
    \/ CalculerStatistiqueFriedman
    \/ TestsPostHocWilcoxon

SpecFriedman == InitFriedman /\ [][NextFriedman]_vars

\* the blocks and the models of the rows
InitialBlocs == {indicateurs_reponses[i].bloc : i \in 1..Len(indicateurs_reponses)}
PresentModeles == {indicateurs_reponses[i].modele : i \in 1..Len(indicateurs_reponses)}

\* the blocks that have a row for every model of the data
CompleteBlocs ==
    {b \in InitialBlocs : \A m \in PresentModeles :
        \E i \in 1..Len(indicateurs_reponses) :
            indicateurs_reponses[i].bloc = b /\ indicateurs_reponses[i].modele = m}

\* C22: construire_tableau_apparie partitions the initial blocks: the complete
\* matrix holds exactly the blocks with a value for every model of the data,
\* the excluded report holds the others, both are disjoint and make up the
\* initial blocks, and the values of the complete blocks are those obtained
\* when the excluded blocks are not in the input.
C22_CompleteBlocksPartition ==
    pc = "tableau" =>
        LET t == sortie_tableau.tableau
            complets == Values(t.index)
            exclus == Values(sortie_tableau.prompts_exclus)
            sans_exclus == SelectSeq(indicateurs_reponses, LAMBDA r : r.bloc \notin exclus)
            t2 == construire_tableau_apparie(sans_exclus, methode_agregation).tableau
        IN  /\ complets = CompleteBlocs
            /\ exclus = InitialBlocs \ CompleteBlocs
            /\ Values(sortie_tableau.prompts_initiaux) = InitialBlocs
            /\ complets \cap exclus = {}
            /\ complets \cup exclus = InitialBlocs
            /\ Len(t.index) = Cardinality(complets)
            /\ Len(sortie_tableau.prompts_exclus) = Cardinality(exclus)
            /\ \A b \in complets :
                   /\ DOMAIN t.cells[b] = PresentModeles
                   /\ t.cells[b] = t2.cells[b]
                   /\ \A m \in PresentModeles :
                          t.cells[b][m] = Aggregate(GroupValues(indicateurs_reponses, b, m),
                                                    methode_agregation)

\* one block with every model and one block that misses a model
C22_WitnessOneBlockExcluded ==
    /\ pc = "tableau"
    /\ Len(sortie_tableau.tableau.index) = 1
    /\ Len(sortie_tableau.prompts_exclus) = 1
    /\ Len(sortie_tableau.tableau.columns) = 3
    /\ \E m \in PresentModeles :
           GroupValues(indicateurs_reponses, sortie_tableau.prompts_exclus[1], m) # <<>>

\* C23: calculer_statistique_friedman returns None for fewer than 2 blocks or
\* fewer than 2 conditions and otherwise, without raising, a result with the
\* statistic, the p-value, n_blocks, k_conditions and Kendall's W equal to
\* statistic / (n_blocks * (k_conditions - 1)).
C23_FriedmanResultOrNone ==
    pc = "friedman" =>
        LET t == sortie_tableau.tableau
        IN  IF Len(t.index) < 2 \/ Len(t.columns) < 2
            THEN resultat_friedman = NoResultat
            ELSE /\ resultat_friedman.kind = "dict"
                 /\ resultat_friedman.n_prompts = Len(t.index)
                 /\ resultat_friedman.k_modeles = Len(t.columns)
                 /\ resultat_friedman.kendall_w
                        = [dividend |-> resultat_friedman.statistique,
                           divisor |-> Frac(Len(t.index) * (Len(t.columns) - 1), 1)]

\* the pairs of columns of the complete table whose differences are not all zero
TestablePairs ==
    LET t == sortie_tableau.tableau
    IN  {pr \in Values(Combinations2(t.columns)) :
            \E b \in Values(t.index) : ~FracEq(t.cells[b][pr[1]], t.cells[b][pr[2]])}

\* C24: tests_post_hoc_wilcoxon visits every unordered pair of conditions of
\* the complete table, skips without raising a pair whose test fails (all the
\* paired differences zero) and returns exactly one row for every other pair.
C24_FailedPairsSkipped ==
    pc = "wilcoxon" =>
        /\ resultats_df.kind = "DataFrame"
        /\ LET df == resultats_df.lignes
           IN  /\ {<<df[i].modele_a, df[i].modele_b>> : i \in 1..Len(df)} = TestablePairs
               /\ Len(df) = Cardinality(TestablePairs)
               /\ \A i \in 1..Len(df) :
                      /\ df[i].n = Len(sortie_tableau.tableau.index)
                      /\ df[i].p_brute = p_values_wilcoxon[<<df[i].modele_a, df[i].modele_b>>]

\* three conditions, the first pair with all its differences zero: it is
\* skipped and the two pairs after it are reported
C24_WitnessFirstPairSkipped ==
    /\ pc = "wilcoxon"
    /\ Len(sortie_tableau.tableau.columns) = 3
    /\ Len(sortie_tableau.tableau.index) = 2
    /\ <<"m1", "m2">> \notin TestablePairs
    /\ Len(resultats_df.lignes) = 2

(***************************************************************************)
(* The spaCy tokenizer of hash.py (_get_spacy_tokenizer under              *)
(* functools.lru_cache) and the calls rendu_hash makes to it.  Streamlit   *)
(* runs the script of each session in a thread of the one process, so      *)
(* several renders may be under way; a thread can be switched between the   *)
(* lookup in the cache, the end of spacy.load and the store in the cache.  *)
(***************************************************************************)
MaxRenders == 1

ScriptThreads == {1, 2}

TokenizationModes == {"regex", "spacy"}

\* a text as the calls of _tokenize see it: the number of tokens of each of
\* the segments split_segments_by_connectors returns
SegmentTokens == {<<>>, <<0>>, <<2>>}

\* the lines of rendu_hash and of the functions it calls
NoPosition == [site |-> 0, seg |-> 0, step |-> "idle", nlp |-> 0]

Position(site, seg, step, nlp) == [site |-> site, seg |-> seg, step |-> step, nlp |-> nlp]

\* the calls of rendu_hash that pass tokenization_mode, by line: the two
\* calls of compute_segment_word_lengths, average_segment_length,
\* compute_length_standard_deviation, segments_with_word_lengths and the
\* calls on the rows of the dataframe (average_segment_length_by_modality
\* and the ones after it)
CallSites == <<105, 192, 207, 210, 226, 242>>

\* the calls written inside try / except RuntimeError
Guarded(site) == site \in {105, 192}

\* the calls whose text is a new argument
NewText(site) == site \in {105, 192, 242}

\* lengths of compute_segment_word_lengths: the segments that have tokens
segment_lengths_of(segs) == SelectSeq(segs, LAMBDA n : n > 0)

\* rendu_hash going on to the line 242 whatever the lengths are
rendu_hash_unchecked(site, segs, selected) ==
    IF site = 105 THEN 192
    ELSE IF site = 192 THEN 207
    ELSE IF site = 207 THEN 210
    ELSE IF site = 210 THEN 226
    ELSE IF site = 226 THEN 242
    ELSE 0

\* the line rendu_hash goes to after the call at a line returned (0: return)
rendu_hash_after(site, segs, selected) ==
    IF site = 105
    THEN IF segment_lengths_of(segs) = <<>> \/ ~selected THEN 0 ELSE 192
    ELSE IF site = 192
    THEN IF segment_lengths_of(segs) = <<>> THEN 0 ELSE 207
    ELSE IF site = 207 THEN 210
    ELSE IF site = 210 THEN 226
    ELSE IF site = 226 THEN 242
    ELSE 0

\* the position after the tokens of a segment are known
Advance(pos, segs, selected) ==
    IF pos.seg < Len(segs)
    THEN Position(pos.site, pos.seg + 1, "lookup", 0)
    ELSE LET next == rendu_hash_after(pos.site, segs, selected)
         IN  IF next = 0 THEN Position(pos.site, 0, "returned", 0)
             ELSE Position(next, 0, "call", 0)

\* the wrapper of lru_cache after the call of the function: the result is
\* stored unless the key was added to the cache during the call
cache_store(stored, result) == IF stored # 0 THEN stored ELSE result

\* the body of _get_spacy_tokenizer: spacy.load and the except OSError
_get_spacy_tokenizer(installed, loads) ==
    IF installed THEN [kind |-> "tokenizer", nlp |-> loads + 1]
    ELSE Raise("RuntimeError", "Le modele spaCy 'fr_core_news_md' est manquant : installez-le pour utiliser la tokenisation spaCy.")

InitSpacy ==
    /\ pc = "render"
    /\ cache = 0
    /\ spacy_loads = 0
    /\ model_installed \in BOOLEAN
    /\ thread_pc = [t \in ScriptThreads |-> NoPosition]
    /\ thread_tokenizer = [t \in ScriptThreads |-> 0]
    /\ thread_render = [t \in ScriptThreads |-> [tokenization_mode |-> "regex", segs |-> <<>>]]
    /\ thread_calls = [t \in ScriptThreads |-> 0]
    /\ HashIdle
    /\ LoadIdle
    /\ KSIdle
    /\ PairIdle
    /\ MWIdle
    /\ FriedIdle
    /\ AnnotIdle
    /\ LengthsIdle

OtherVars == <<pc, segVars, resVars, rowVars, loadVars, ksVars, pairVars, mwVars, friedVars,
              annotVars, lenVars>>

\* a session reruns its script: rendu_hash up to its first call
StartRender(t) ==
    /\ thread_pc[t].step \in {"idle", "returned", "returned_error", "crashed"}
    /\ thread_calls[t] < MaxRenders
    /\ \E tokenization_choice \in TokenizationModes :
           thread_render' = [thread_render EXCEPT ![t] =
               [tokenization_mode |-> tokenization_choice, segs |-> <<>>]]
    /\ thread_pc' = [thread_pc EXCEPT ![t] = Position(105, 0, "call", 0)]
    /\ thread_calls' = [thread_calls EXCEPT ![t] = @ + 1]
    /\ UNCHANGED <<cache, spacy_loads, model_installed, thread_tokenizer, OtherVars>>

\* the call at a line of rendu_hash, up to the first call of _tokenize_spacy
CallFunction(t) ==
    /\ thread_pc[t].step = "call"
    /\ \E segs \in (IF NewText(thread_pc[t].site) THEN SegmentTokens
                    ELSE {thread_render[t].segs}), selected \in BOOLEAN :
           /\ thread_render' = [thread_render EXCEPT ![t].segs = segs]
           /\ thread_pc' = [thread_pc EXCEPT ![t] =
                  IF thread_render[t].tokenization_mode = "regex"
                  THEN Advance(Position(@.site, Len(segs), "lookup", 0), segs, selected)
                  ELSE Advance(@, segs, selected)]
    /\ UNCHANGED <<cache, spacy_loads, model_installed, thread_tokenizer,
                   thread_calls, OtherVars>>

\* _tokenize_spacy calls _get_spacy_tokenizer: the lookup of lru_cache
CacheLookup(t) ==
    /\ thread_pc[t].step = "lookup"
    /\ IF cache # 0
       THEN /\ thread_tokenizer' = [thread_tokenizer EXCEPT ![t] = cache]
            /\ \E selected \in BOOLEAN :
                   thread_pc' = [thread_pc EXCEPT ![t] =
                       Advance(@, thread_render[t].segs, selected)]
       ELSE /\ thread_pc' = [thread_pc EXCEPT ![t].step = "load"]
            /\ UNCHANGED thread_tokenizer
    /\ UNCHANGED <<cache, spacy_loads, model_installed, thread_render,
                   thread_calls, OtherVars>>

\* spacy.load ends: the pipeline, or the RuntimeError that the try of the
\* line catches (st.error, return) or that leaves rendu_hash
SpacyLoad(t) ==
    /\ thread_pc[t].step = "load"
    /\ LET outcome == _get_spacy_tokenizer(model_installed, spacy_loads)
       IN  IF outcome.kind = "raise"
           THEN /\ thread_pc' = [thread_pc EXCEPT ![t] =
                       Position(@.site, 0,
                                IF Guarded(@.site) THEN "returned_error" ELSE "crashed", 0)]
                /\ UNCHANGED spacy_loads
           ELSE /\ thread_pc' = [thread_pc EXCEPT ![t] =
                       Position(@.site, @.seg, "store", outcome.nlp)]
                /\ spacy_loads' = spacy_loads + 1
    /\ UNCHANGED <<cache, model_installed, thread_tokenizer, thread_render,
                   thread_calls, OtherVars>>

\* the wrapper of lru_cache stores and returns the tokenizer
CacheStore(t) ==
    /\ thread_pc[t].step = "store"
    /\ cache' = cache_store(cache, thread_pc[t].nlp)
    /\ thread_tokenizer' = [thread_tokenizer EXCEPT ![t] = thread_pc[t].nlp]
    /\ \E selected \in BOOLEAN :
           thread_pc' = [thread_pc EXCEPT ![t] =
               Advance(@, thread_render[t].segs, selected)]
    /\ UNCHANGED <<spacy_loads, model_installed, thread_render, thread_calls, OtherVars>>

\* the model is installed, or removed, while the process runs
InstallModel ==
    /\ ~model_installed
    /\ model_installed' = TRUE
    /\ UNCHANGED <<cache, spacy_loads, thread_pc, thread_tokenizer, thread_render,
                   thread_calls, OtherVars>>

RemoveModel ==
    /\ model_installed
    /\ model_installed' = FALSE
    /\ UNCHANGED <<cache, spacy_loads, thread_pc, thread_tokenizer, thread_render,
                   thread_calls, OtherVars>>

NextSpacy ==
    \/ \E t \in ScriptThreads : StartRender(t)
    \/ \E t \in ScriptThreads : CallFunction(t)
    \/ \E t \in ScriptThreads : CacheLookup(t)
    \/ \E t \in ScriptThreads : SpacyLoad(t)
    \/ \E t \in ScriptThreads : CacheStore(t)
    \/ InstallModel
    \/ RemoveModel

SpecSpacy == InitSpacy /\ [][NextSpacy]_vars

\* C25: the model loader completes successfully at most once in the
\* process, whatever the interleaving of the threads, and every tokenizer a
\* call obtained is the one the cache holds.
C25_TokenizerLoadedAtMostOnce ==
    /\ spacy_loads <= 1
    /\ \A t \in DOMAIN thread_tokenizer : thread_tokenizer[t] \in {0, cache}

\* a load failed in one thread and a later call obtained a tokenizer: the
\* failure was not stored in the cache
C25_FailedLoadRetried ==
    \E t, u \in DOMAIN thread_pc :
        /\ thread_pc[t].step = "returned_error"
        /\ thread_tokenizer[u] # 0

\* C26: the RuntimeError of a missing model never leaves rendu_hash.
C26_MissingModelAlwaysCaught ==
    \A t \in DOMAIN thread_pc : thread_pc[t].step # "crashed"

\* a render whose first call showed the error, and a render in spaCy mode
\* that reached the calls outside the try blocks
C26_WitnessErrorShownAndLaterCalls ==
    \E t, u \in DOMAIN thread_pc :
        /\ thread_pc[t].step = "returned_error"
        /\ thread_render[u].tokenization_mode = "spacy"
        /\ thread_pc[u].site = 242
        /\ thread_pc[u].step = "returned"
        /\ thread_tokenizer[u] # 0

(***************************************************************************)
(* Annotation and count of the connectors (analyses.py).  The value of      *)
(* annotate_connectors_html is a sequence of pieces: the characters of the  *)
(* escaped text and, for each match, the markup that replaces it.           *)
(***************************************************************************)
\* the character U+21B5 shown for a line break, written in ASCII
RETURN_ARROW == "[U+21B5]"

\* the characters U+00C0 and U+00E0 (A with a grave accent, upper and lower
\* case), each one character of a label, written in ASCII
A_GRAVE == "[U+00C0]"
a_grave == "[U+00E0]"

UpperLetters ==
    <<"A", "B", "C", "D", "E", "F", "G", "H", "I", "J", "K", "L", "M",
      "N", "O", "P", "Q", "R", "S", "T", "U", "V", "W", "X", "Y", "Z">>
LowerLetters ==
    <<"a", "b", "c", "d", "e", "f", "g", "h", "i", "j", "k", "l", "m",
      "n", "o", "p", "q", "r", "s", "t", "u", "v", "w", "x", "y", "z">>
Digits == <<"0", "1", "2", "3", "4", "5", "6", "7", "8", "9">>

\* the characters of the texts, keys and labels in the order of their code
\* points, the order in which Python compares strings
CodePointOrder ==
    <<"\t", "\n", "\r", " ", "!", "\"", "#", "&", "'", "*", "-", ".">> \o Digits
        \o <<":", ";", "<", ">", "?">> \o UpperLetters \o <<"_">> \o LowerLetters
        \o <<A_GRAVE, a_grave>>

Ord(c) == CHOOSE i \in 1..Len(CodePointOrder) : CodePointOrder[i] = c

\* a < b for two Python strings
RECURSIVE StrLess(_, _)
StrLess(a, b) ==
    IF b = <<>> THEN FALSE
    ELSE IF a = <<>> THEN TRUE
    ELSE IF Head(a) = Head(b) THEN StrLess(Tail(a), Tail(b))
    ELSE Ord(Head(a)) < Ord(Head(b))

\* the labels of the dictionaries under analysis, as their characters
LABEL_CAUSE == <<"C", "A", "U", "S", "E">>
LABEL_RETOUR ==
    <<"R", "E", "T", "O", "U", "R", " ", A_GRAVE, " ", "L", "A", " ",
      "L", "I", "G", "N", "E">>

LabelOf(connector) == IF connector = NEWLINE_CANONICAL THEN LABEL_RETOUR ELSE LABEL_CAUSE

\* html.escape(s, quote=True)
EscapeChar(c) ==
    CASE c = "&" -> <<"&", "a", "m", "p", ";">>
      [] c = "<" -> <<"&", "l", "t", ";">>
      [] c = ">" -> <<"&", "g", "t", ";">>
      [] c = "\"" -> <<"&", "q", "u", "o", "t", ";">>
      [] c = "'" -> <<"&", "#", "x", "2", "7", ";">>
      [] OTHER -> <<c>>

escape(s) == Flatten([i \in 1..Len(s) |-> EscapeChar(s[i])])

\* "".join(chars)
RECURSIVE JoinChars(_)
JoinChars(chars) == IF chars = <<>> THEN "" ELSE Head(chars) \o JoinChars(Tail(chars))

\* str.lower() of one character
LowerChar(c) ==
    IF c = A_GRAVE THEN a_grave
    ELSE IF \E i \in 1..26 : UpperLetters[i] = c
    THEN LowerLetters[CHOOSE i \in 1..26 : UpperLetters[i] = c]
    ELSE c

\* the class [a-z0-9]
SlugChars == {LowerLetters[i] : i \in 1..26} \cup {Digits[i] : i \in 1..10}

\* re.sub(r"[^a-z0-9]+", "-", s): each run of other characters becomes "-"
RECURSIVE SlugSub(_, _)
SlugSub(s, in_run) ==
    IF s = <<>> THEN <<>>
    ELSE IF Head(s) \in SlugChars THEN <<Head(s)>> \o SlugSub(Tail(s), FALSE)
    ELSE (IF in_run THEN <<>> ELSE <<"-">>) \o SlugSub(Tail(s), TRUE)

\* str.strip("-")
StripHyphens(s) ==
    LET kept == {i \in 1..Len(s) : s[i] # "-"}
    IN  IF kept = {} THEN <<>>
        ELSE Slice(s, Min(kept), (CHOOSE i \in kept : \A o \in kept : o <= i) + 1)

\* re.sub(r"[^a-z0-9]+", "-", label.lower()).strip("-") or "label"
_slugify_label(label) ==
    LET slug == StripHyphens(SlugSub([i \in 1..Len(label) |-> LowerChar(label[i])], FALSE))
    IN  IF slug = <<>> THEN "label" ELSE JoinChars(slug)

\* the alternatives of the regex of a connector: \r?\n for the line break,
\* else the escaped key, between \b when its two ends are alphanumeric
_connector_to_regex(connector) ==
    IF connector = <<>> THEN <<>>
    ELSE IF connector = NEWLINE_CANONICAL
    THEN << [literal |-> <<"\r", "\n">>, word_bounded |-> FALSE],
            [literal |-> <<"\n">>, word_bounded |-> FALSE] >>
    ELSE << [literal |-> connector,
             word_bounded |-> connector[1] \in AlnumChars
                              /\ connector[Len(connector)] \in AlnumChars] >>

\* _build_connector_pattern of analyses.py: the alternatives of the keys,
\* the longest first, or the pattern ^$ when no key gives one
analyses_build_connector_pattern(cleaned_connectors) ==
    LET sorted_keys == SortedByLenDesc(cleaned_connectors, MaxKeyLen(cleaned_connectors))
        patterns == Flatten([i \in 1..Len(sorted_keys) |->
                                _connector_to_regex(sorted_keys[i])])
    IN  [alts |-> patterns, punctuation |-> FALSE, empty_text |-> patterns = <<>>]

\* pattern.finditer(s) for a pattern of analyses.py: ^$ has one empty match
\* at the start of the empty text and of the text made of one line break
analyses_finditer(s, pattern) ==
    IF pattern.empty_text
    THEN (IF s = <<>> \/ s = <<"\n">> THEN <<[start |-> 1, end |-> 1]>> ELSE <<>>)
    ELSE FindIter(s, pattern, 1)

\* start of the line that holds position p
LineStart(s, p) ==
    LET breaks == {q \in 1..(p - 1) : s[q] = "\n"}
    IN  IF breaks = {} THEN 1 ELSE (CHOOSE q \in breaks : \A o \in breaks : o <= q) + 1

\* IGNORED_NEWLINE_PATTERN.finditer(text), match.start(1): the line breaks
\* that ^\*{4}.*?(\r?\n) captures.  A match starts at a line start and ends
\* with the first \n after the stars, so the matches are the lines that
\* begin with four stars and end with \n
_find_ignored_newlines(s) ==
    {q \in 1..Len(s) :
        \E n \in {q, q + 1} :
            /\ n <= Len(s) /\ s[n] = "\n"
            /\ LET p == LineStart(s, n)
               IN  /\ n >= p + 4
                   /\ \A i \in p..(p + 3) : s[i] = "*"
                   /\ q = (IF n - 1 >= p + 4 /\ s[n - 1] = "\r" THEN n - 1 ELSE n)}

\* _find_ignored_newlines finding nothing
find_no_ignored_newlines(s) == {}

\* the markup of a connector, with safe_label = escape(label)
connector_markup(label, connector_display) ==
    "<span class=\"connector-annotation connector-" \o _slugify_label(label) \o "\">"
    \o "<span class=\"connector-label\">" \o JoinChars(escape(label)) \o "</span>"
    \o "<span class=\"connector-text\">" \o connector_display \o "</span>"
    \o "</span>"

\* lower_map.get(matched_connector.lower(), "")
LowerMapGet(cleaned_connectors, matched_connector) ==
    LET hits == {i \in 1..Len(cleaned_connectors) :
                    \/ [j \in 1..Len(cleaned_connectors[i]) |-> Lower(cleaned_connectors[i][j])]
                           = [j \in 1..Len(matched_connector) |-> Lower(matched_connector[j])]
                    \/ /\ cleaned_connectors[i] = NEWLINE_CANONICAL
                       /\ matched_connector \in NEWLINE_ALIASES}
    IN  IF hits = {} THEN <<>>
        ELSE LabelOf(cleaned_connectors[CHOOSE i \in hits : \A o \in hits : o <= i])

\* _replacer(match): the pieces that replace a match
_replacer(s, match, cleaned_connectors, ignored_newline_positions) ==
    LET matched_connector == Slice(s, match.start, match.end)
        label == LowerMapGet(cleaned_connectors, matched_connector)
        is_newline == matched_connector \in NEWLINE_ALIASES
    IN  IF is_newline /\ match.start \in ignored_newline_positions THEN <<"<br />">>
        ELSE IF is_newline THEN <<connector_markup(label, RETURN_ARROW), "<br />">>
        ELSE <<connector_markup(label, JoinChars(escape(matched_connector)))>>

\* pattern.sub(_replacer, escaped_text) from match number i on
RECURSIVE SubLoop(_, _, _, _, _, _)
SubLoop(s, matches, i, last_end, cleaned_connectors, ignored_newline_positions) ==
    IF i > Len(matches) THEN Slice(s, last_end, Len(s) + 1)
    ELSE Slice(s, last_end, matches[i].start)
            \o _replacer(s, matches[i], cleaned_connectors, ignored_newline_positions)
            \o SubLoop(s, matches, i + 1, matches[i].end, cleaned_connectors,
                       ignored_newline_positions)

\* str.replace("\r\n", "\n") on the pieces
RECURSIVE ReplaceCRLF(_)
ReplaceCRLF(pieces) ==
    IF pieces = <<>> THEN <<>>
    ELSE IF Len(pieces) >= 2 /\ pieces[1] = "\r" /\ pieces[2] = "\n"
    THEN <<"\n">> \o ReplaceCRLF(Tail(Tail(pieces)))
    ELSE <<Head(pieces)>> \o ReplaceCRLF(Tail(pieces))

annotate_connectors_html(s, conn) ==
    IF s = <<>> THEN <<>>
    ELSE LET cleaned_connectors == SelectSeq(conn, LAMBDA key : key # <<>>)
         IN  IF cleaned_connectors = <<>> THEN escape(s)
             ELSE LET ignored_newline_positions == _find_ignored_newlines(s)
                      pattern == analyses_build_connector_pattern(cleaned_connectors)
                      escaped_text == escape(s)
                  IN  ReplaceCRLF(SubLoop(escaped_text, analyses_finditer(escaped_text, pattern),
                                          1, 1, cleaned_connectors,
                                          ignored_newline_positions))

\* the rows of count_connectors before the sort, from key number i on
RECURSIVE CountLoop(_, _, _, _)
CountLoop(s, cleaned_connectors, i, ignored_newline_positions) ==
    IF i > Len(cleaned_connectors) THEN <<>>
    ELSE LET connector == cleaned_connectors[i]
             regex == [alts |-> _connector_to_regex(connector), punctuation |-> FALSE]
             found == FindIter(s, regex, 1)
             occurrences ==
                 IF connector = NEWLINE_CANONICAL
                 THEN Cardinality({m \in 1..Len(found) :
                                      found[m].start \notin ignored_newline_positions})
                 ELSE Len(found)
         IN  (IF occurrences # 0
              THEN <<[connecteur |-> connector, label |-> LabelOf(connector),
                      occurrences |-> occurrences]>>
              ELSE <<>>)
                 \o CountLoop(s, cleaned_connectors, i + 1, ignored_newline_positions)

\* the order of the rows under the keys label, then connecteur
RowLess(a, b) ==
    \/ StrLess(a.label, b.label)
    \/ a.label = b.label /\ StrLess(a.connecteur, b.connecteur)

\* sort_values(["label", "connecteur"]): the rows by label, those of one
\* label by connector; rows equal on both keys keep their order
SortByLabel(lignes_df) ==
    LET rank(i) == Cardinality({j \in 1..Len(lignes_df) :
                                   \/ RowLess(lignes_df[j], lignes_df[i])
                                   \/ /\ j < i
                                      /\ ~RowLess(lignes_df[i], lignes_df[j])})
    IN  [k \in 1..Len(lignes_df) |->
            lignes_df[CHOOSE i \in 1..Len(lignes_df) : rank(i) = k - 1]]

count_connectors(s, conn) ==
    LET cleaned_connectors == SelectSeq(conn, LAMBDA key : key # <<>>)
    IN  SortByLabel(CountLoop(s, cleaned_connectors, 1, _find_ignored_newlines(s)))

AnnotChunks == {<<"a">>, <<"'">>, <<"\n">>, <<"\r", "\n">>, <<"*", "*", "*", "*">>}

AnnotTexts == {Flatten(cs) : cs \in UNION {[1..n -> AnnotChunks] : n \in 0..MaxChunks}}

AnnotDictionaries ==
    { << <<"\n">> >>,
      << <<"\n">>, <<"a">> >>,
      << <<"A">>, <<>>, <<"\n">> >>,
      << <<"a">>, <<"A">> >>,
      << <<"a">> >> }

InitAnnotate ==
    /\ pc = "input"
    /\ text \in AnnotTexts
    /\ connectors \in AnnotDictionaries
    /\ segmentation_mode = "connecteurs"
    /\ segments = <<>>
    /\ lengths = <<>>
    /\ longueurs = <<>>
    /\ seuil_segment_court = 0
    /\ resume = NoResume
    /\ rows = <<>>
    /\ idx = 1
    /\ lignes = <<>>
    /\ reponses_ignorees = 0
    /\ annotated_html = NoResultat
    /\ stats_df = NoResultat
    /\ LoadIdle
    /\ KSIdle
    /\ PairIdle
    /\ MWIdle
    /\ FriedIdle
    /\ SpacyIdle
    /\ LengthsIdle

AnnotateConnectorsHtml ==
    /\ annotated_html = NoResultat
    /\ annotated_html' = [kind |-> "str", pieces |-> annotate_connectors_html(text, connectors)]
    /\ UNCHANGED <<pc, segVars, resVars, rowVars, loadVars, ksVars, pairVars, mwVars,
                   friedVars, spacyVars, stats_df, lenVars>>

CountConnectors ==
    /\ stats_df = NoResultat
    /\ stats_df' = [kind |-> "DataFrame", lignes_df |-> count_connectors(text, connectors)]
    /\ UNCHANGED <<pc, segVars, resVars, rowVars, loadVars, ksVars, pairVars, mwVars,
                   friedVars, spacyVars, annotated_html, lenVars>>

NextAnnotate == AnnotateConnectorsHtml \/ CountConnectors

SpecAnnotate == InitAnnotate /\ [][NextAnnotate]_vars

\* the line breaks (\r?\n) of a text and those that end a line beginning
\* with four stars
LineBreaks(s) ==
    {q \in 1..Len(s) : \/ s[q] = "\n" /\ (q = 1 \/ s[q - 1] # "\r")
                       \/ s[q] = "\r" /\ q < Len(s) /\ s[q + 1] = "\n"}

EndsMetadataLine(s, q) ==
    LET p == LineStart(s, q)
    IN  p + 3 < q /\ \A i \in p..(p + 3) : s[i] = "*"

CountedBreaks(s) == Cardinality({q \in LineBreaks(s) : ~EndsMetadataLine(s, q)})

NewlineOccurrences(df) ==
    LET hits == {i \in 1..Len(df.lignes_df) : df.lignes_df[i].connecteur = NEWLINE_CANONICAL}
    IN  IF hits = {} THEN 0 ELSE df.lignes_df[CHOOSE i \in hits : TRUE].occurrences

NewlineAnnotations(html) ==
    Cardinality({i \in 1..Len(html.pieces) :
                    html.pieces[i] = connector_markup(LABEL_RETOUR, RETURN_ARROW)})

HasNewlineConnector == \E i \in 1..Len(connectors) : connectors[i] = NEWLINE_CANONICAL

\* C27: with the line break as a connector, count_connectors counts and
\* annotate_connectors_html annotates exactly the line breaks that do not
\* end a line beginning with ****, so both numbers are equal.
C27_MetadataBreakNeitherCountedNorAnnotated ==
    HasNewlineConnector =>
        /\ stats_df # NoResultat => NewlineOccurrences(stats_df) = CountedBreaks(text)
        /\ annotated_html # NoResultat =>
               NewlineAnnotations(annotated_html) = CountedBreaks(text)

\* the part of C27 on count_connectors alone
C27_CountIgnoresMetadataBreaks ==
    (HasNewlineConnector /\ stats_df # NoResultat) =>
        NewlineOccurrences(stats_df) = CountedBreaks(text)

\* the annotation of the texts that html.escape leaves as they are
C27_AnnotationOfPlainTexts ==
    (HasNewlineConnector /\ annotated_html # NoResultat /\ escape(text) = text) =>
        NewlineAnnotations(annotated_html) = CountedBreaks(text)

(***************************************************************************)
(* The two functions of hash.py that give the lengths of the segments,     *)
(* in both tokenization modes.                                              *)
(***************************************************************************)
\* the whitespace-separated pieces of s
RECURSIVE SplitWhitespace(_)
SplitWhitespace(s) ==
    LET t == LStrip(s)
    IN  IF t = <<>> THEN <<>>
        ELSE LET stops == {i \in 1..Len(t) : t[i] \in SpaceChars} \cup {Len(t) + 1}
             IN  <<Slice(t, 1, Min(stops))>>
                     \o SplitWhitespace(Slice(t, Min(stops), Len(t) + 1))

\* a piece without the punctuation before its first and after its last
\* word character
StripPunctuation(piece) ==
    LET word == {i \in 1..Len(piece) : piece[i] \in WordChars}
    IN  IF word = {} THEN <<>>
        ELSE Slice(piece, Min(word), (CHOOSE m \in word : \A o \in word : o <= m) + 1)

\* the tokens of the spaCy tokenizer that are neither space nor punctuation.
\* The tokenizer belongs to the library: it is taken to cut the text at the
\* whitespace and to split the punctuation off both ends of each piece
SpacyTokens(s) ==
    LET pieces == SplitWhitespace(s)
        stripped == [i \in 1..Len(pieces) |-> StripPunctuation(pieces[i])]
    IN  SelectSeq(stripped, LAMBDA token : token # <<>>)

\* a call of _get_spacy_tokenizer() through the wrapper of lru_cache, with
\* no other thread in the call: a hit gives the stored tokenizer, a miss
\* runs the body and stores what it returns; an exception stores nothing.
\* The value is the result with the cache and the count of loads after
\* the call.  The functions that call it count their lookups of the cache
lru_cache_get_spacy_tokenizer(installed, stored, loads) ==
    IF stored # 0
    THEN [out |-> [kind |-> "tokenizer", nlp |-> stored],
          cache |-> stored, spacy_loads |-> loads]
    ELSE LET result == _get_spacy_tokenizer(installed, loads)
         IN  IF result.kind = "raise"
             THEN [out |-> result, cache |-> stored, spacy_loads |-> loads]
             ELSE [out |-> result, cache |-> cache_store(stored, result.nlp),
                   spacy_loads |-> loads + 1]

_tokenize_spacy(s, installed, stored, loads) ==
    LET tokenizer == lru_cache_get_spacy_tokenizer(installed, stored, loads)
    IN  [out |-> IF tokenizer.out.kind = "raise" THEN tokenizer.out
                 ELSE [kind |-> "list", items |-> SpacyTokens(s)],
         cache |-> tokenizer.cache, spacy_loads |-> tokenizer.spacy_loads,
         lookups |-> 1]

_tokenize(s, mode, installed, stored, loads) ==
    IF mode = "spacy" THEN _tokenize_spacy(s, installed, stored, loads)
    ELSE [out |-> [kind |-> "list", items |-> _tokenize_regex(s)],
          cache |-> stored, spacy_loads |-> loads, lookups |-> 0]

\* the for loop of compute_segment_word_lengths in a tokenization mode
RECURSIVE TokenizedLengthsLoop(_, _, _, _, _, _)
TokenizedLengthsLoop(segs, mode, installed, stored, loads, lengths_so_far) ==
    IF segs = <<>>
    THEN [out |-> [kind |-> "list", items |-> lengths_so_far],
          cache |-> stored, spacy_loads |-> loads, lookups |-> 0]
    ELSE LET tokens == _tokenize(Head(segs), mode, installed, stored, loads)
         IN  IF tokens.out.kind = "raise" THEN tokens
             ELSE [TokenizedLengthsLoop(
                       Tail(segs), mode, installed, tokens.cache, tokens.spacy_loads,
                       lengths_so_far \o (IF tokens.out.items # <<>>
                                          THEN <<Len(tokens.out.items)>> ELSE <<>>))
                   EXCEPT !.lookups = @ + tokens.lookups]

\* compute_segment_word_lengths with its argument tokenization_mode
compute_segment_word_lengths_in(t, conn, mode, tokenization, installed, stored, loads) ==
    TokenizedLengthsLoop(split_segments_by_connectors(t, conn, mode), tokenization,
                         installed, stored, loads, <<>>)

_format_segment_with_markers(segment, previous_connector, next_connector) ==
    (IF previous_connector # None /\ previous_connector # <<>>
     THEN <<"[">> \o previous_connector \o <<"]", " ">> ELSE <<>>)
    \o Strip(segment)
    \o (IF next_connector # None /\ next_connector # <<>>
        THEN <<" ", "[">> \o next_connector \o <<"]">> ELSE <<>>)

\* previous_connector or ""
OrEmpty(connector) == IF connector = None THEN <<>> ELSE connector

\* the entry of a segment with its boundaries and its tokens
Entry(boundaries, tokens) ==
    [segment |-> Strip(boundaries[1]),
     segment_avec_marqueurs |->
         _format_segment_with_markers(boundaries[1], boundaries[2], boundaries[3]),
     longueur |-> Len(tokens),
     connecteur_precedent |-> OrEmpty(boundaries[2]),
     connecteur_suivant |-> OrEmpty(boundaries[3])]

\* the for loop of segments_with_word_lengths that keeps every segment
RECURSIVE EntriesLoopKeepingAll(_, _, _, _, _, _)
EntriesLoopKeepingAll(swb, mode, installed, stored, loads, entries) ==
    IF swb = <<>>
    THEN [out |-> [kind |-> "list", items |-> entries],
          cache |-> stored, spacy_loads |-> loads, lookups |-> 0]
    ELSE LET tokens == _tokenize(swb[1][1], mode, installed, stored, loads)
         IN  IF tokens.out.kind = "raise" THEN tokens
             ELSE [EntriesLoopKeepingAll(
                       Tail(swb), mode, installed, tokens.cache, tokens.spacy_loads,
                       entries \o <<Entry(swb[1], tokens.out.items)>>)
                   EXCEPT !.lookups = @ + tokens.lookups]

\* the for loop of segments_with_word_lengths
RECURSIVE EntriesLoop(_, _, _, _, _, _)
EntriesLoop(swb, mode, installed, stored, loads, entries) ==
    IF swb = <<>>
    THEN [out |-> [kind |-> "list", items |-> entries],
          cache |-> stored, spacy_loads |-> loads, lookups |-> 0]
    ELSE LET tokens == _tokenize(swb[1][1], mode, installed, stored, loads)
         IN  IF tokens.out.kind = "raise" THEN tokens
             ELSE [EntriesLoop(
                       Tail(swb), mode, installed, tokens.cache, tokens.spacy_loads,
                       entries \o (IF tokens.out.items # <<>>
                                   THEN <<Entry(swb[1], tokens.out.items)>> ELSE <<>>))
                   EXCEPT !.lookups = @ + tokens.lookups]

segments_with_word_lengths(t0, conn, mode, tokenization, installed, stored, loads) ==
    LET untouched(value) == [out |-> [kind |-> "list", items |-> value],
                             cache |-> stored, spacy_loads |-> loads, lookups |-> 0]
    IN  IF t0 = <<>> THEN untouched(<<>>)
        ELSE LET t == _remove_metadata_lines(t0)
                 connector_pattern == _build_connector_pattern(conn)
             IN  IF connector_pattern = NoPattern THEN untouched(<<>>)
                 ELSE IF Search(t, connector_pattern, 1) = NoMatch
                 THEN LET tokens == _tokenize(t, tokenization, installed, stored, loads)
                      IN  IF tokens.out.kind = "raise" THEN tokens
                          ELSE [out |-> [kind |-> "list",
                                         items |-> IF tokens.out.items # <<>>
                                                   THEN <<[segment |-> Strip(t),
                                                           segment_avec_marqueurs |-> Strip(t),
                                                           longueur |-> Len(tokens.out.items),
                                                           connecteur_precedent |-> <<>>,
                                                           connecteur_suivant |-> <<>>]>>
                                                   ELSE <<>>],
                                cache |-> tokens.cache, spacy_loads |-> tokens.spacy_loads,
                                lookups |-> tokens.lookups]
                 ELSE LET include_punctuation == (mode = "connecteurs_et_ponctuation")
                          pattern == _build_boundary_pattern(conn, include_punctuation,
                                                             connector_pattern)
                      IN  IF pattern = NoPattern THEN untouched(<<>>)
                          ELSE EntriesLoop(_segments_with_boundaries(t, pattern,
                                                                     connector_pattern),
                                           tokenization, installed, stored, loads, <<>>)

\* the texts of the two threads: with the interleavings of two calls, one
\* chunk and one character fewer than the texts of the segmentation
MaxLengthChunks == 3

LengthChunks == Chunks \ {<<"b">>}

LengthTexts ==
    {Flatten(cs) : cs \in UNION {[1..n -> LengthChunks] : n \in 0..MaxLengthChunks}}

LengthDictionaries ==
    { <<>>,
      << <<"a">>, <<"a", " ", "a">> >>,
      << <<"\n">> >>,
      << <<"a", ".">> >>,
      << <<" ">> >> }

\* the position of a thread in its call of one of the two functions: idle,
\* inside spacy.load after a miss of the cache (load), between the return
\* of spacy.load and the store of lru_cache (store), or returned
LengthsPosition(function, step, nlp) == [function |-> function, step |-> step, nlp |-> nlp]

LengthsFunctions == {"compute_segment_word_lengths", "segments_with_word_lengths"}

\* the process before the calls: the threads of two sessions are about to
\* call the functions on the same arguments; the cache of
\* _get_spacy_tokenizer is empty, or holds the tokenizer of an earlier call
\* while the model is no longer installed (with the model installed a
\* cached tokenizer gives the values of a fresh load)
InitLengths ==
    /\ pc = "input"
    /\ text \in LengthTexts
    /\ connectors \in LengthDictionaries
    /\ segmentation_mode \in SegmentationModes
    /\ tokenization_mode \in TokenizationModes
    /\ model_installed \in (IF tokenization_mode = "spacy" THEN BOOLEAN ELSE {FALSE})
    /\ cache \in (IF tokenization_mode = "spacy" /\ ~model_installed THEN {0, 1} ELSE {0})
    /\ spacy_loads = cache
    /\ segments = <<>>
    /\ lengths = [t \in ScriptThreads |-> NoResultat]
    /\ segment_entries = [t \in ScriptThreads |-> NoResultat]
    /\ longueurs = <<>>
    /\ seuil_segment_court = 0
    /\ resume = NoResume
    /\ rows = <<>>
    /\ idx = 1
    /\ lignes = <<>>
    /\ reponses_ignorees = 0
    /\ thread_pc = [t \in ScriptThreads |-> LengthsPosition("none", "idle", 0)]
    /\ thread_tokenizer = [t \in ScriptThreads |-> 0]
    /\ thread_render = <<>>
    /\ thread_calls = <<>>
    /\ LoadIdle
    /\ KSIdle
    /\ PairIdle
    /\ MWIdle
    /\ FriedIdle
    /\ AnnotIdle

\* what the two calls leave alone
LengthsOtherVars ==
    <<pc, text, connectors, segmentation_mode, segments, resVars, rowVars, loadVars, ksVars,
      pairVars, mwVars, friedVars, model_installed, thread_render, thread_calls, annotVars,
      tokenization_mode>>

\* the call of one of the two functions on the arguments of the sessions,
\* run by one thread alone from a cache and a model as given
LengthsCall(function, installed, stored, loads) ==
    IF function = "compute_segment_word_lengths"
    THEN compute_segment_word_lengths_in(text, connectors, segmentation_mode,
                                         tokenization_mode, installed, stored, loads)
    ELSE segments_with_word_lengths(text, connectors, segmentation_mode,
                                    tokenization_mode, installed, stored, loads)

\* the thread returns from its call with a value or an exception
LengthsReturn(t, function, value) ==
    IF function = "compute_segment_word_lengths"
    THEN /\ lengths' = [lengths EXCEPT ![t] = value]
         /\ UNCHANGED segment_entries
    ELSE /\ segment_entries' = [segment_entries EXCEPT ![t] = value]
         /\ UNCHANGED lengths

\* a thread calls a function: the call runs to its first lookup of the
\* cache of _get_spacy_tokenizer.  With a tokenizer in the cache, in regex
\* mode, or when nothing is to be tokenized, the call returns: every
\* lookup it makes hits and obtains the cached tokenizer, since nothing
\* empties the cache.  On a miss the thread enters spacy.load, where the
\* other threads run.  The miss is the RuntimeError of the call run with
\* an empty cache and without the model
LengthsStartCall(t, function) ==
    /\ thread_pc[t].step = "idle"
    /\ \E call \in {LengthsCall(function, FALSE, cache, spacy_loads)} :
           IF cache = 0 /\ call.out.kind = "raise"
           THEN /\ thread_pc' = [thread_pc EXCEPT ![t] = LengthsPosition(function, "load", 0)]
                /\ UNCHANGED <<lengths, segment_entries, thread_tokenizer>>
           ELSE /\ thread_pc' = [thread_pc EXCEPT ![t] =
                                    LengthsPosition(function, "returned", 0)]
                /\ LengthsReturn(t, function, call.out)
                /\ thread_tokenizer' = IF call.lookups > 0
                                       THEN [thread_tokenizer EXCEPT ![t] = cache]
                                       ELSE thread_tokenizer
    /\ UNCHANGED <<cache, spacy_loads, LengthsOtherVars>>

ComputeSegmentWordLengths(t) == LengthsStartCall(t, "compute_segment_word_lengths")

SegmentsWithWordLengths(t) == LengthsStartCall(t, "segments_with_word_lengths")

\* spacy.load ends in the thread: the pipeline, or the RuntimeError, which
\* neither function catches
LengthsSpacyLoad(t) ==
    /\ thread_pc[t].step = "load"
    /\ LET outcome == _get_spacy_tokenizer(model_installed, spacy_loads)
       IN  IF outcome.kind = "raise"
           THEN /\ thread_pc' = [thread_pc EXCEPT ![t] =
                                    LengthsPosition(@.function, "returned", 0)]
                /\ LengthsReturn(t, thread_pc[t].function, outcome)
                /\ UNCHANGED spacy_loads
           ELSE /\ thread_pc' = [thread_pc EXCEPT ![t] =
                                    LengthsPosition(@.function, "store", outcome.nlp)]
                /\ spacy_loads' = spacy_loads + 1
                /\ UNCHANGED <<lengths, segment_entries>>
    /\ UNCHANGED <<cache, thread_tokenizer, LengthsOtherVars>>

\* the wrapper of lru_cache stores the tokenizer unless another thread
\* stored one meanwhile, and returns the one of this thread; the call
\* tokenizes its first segment with it.  Its later lookups hit and obtain
\* the tokenizer the cache holds after the store, and the call returns
LengthsCacheStore(t) ==
    /\ thread_pc[t].step = "store"
    /\ cache' = cache_store(cache, thread_pc[t].nlp)
    /\ thread_pc' = [thread_pc EXCEPT ![t] = LengthsPosition(@.function, "returned", @.nlp)]
    /\ \E call \in {LengthsCall(thread_pc[t].function, model_installed, thread_pc[t].nlp,
                                 spacy_loads)} :
           /\ LengthsReturn(t, thread_pc[t].function, call.out)
           /\ thread_tokenizer' =
                  [thread_tokenizer EXCEPT ![t] =
                      IF call.lookups > 1 THEN cache_store(cache, thread_pc[t].nlp)
                      ELSE thread_pc[t].nlp]
    /\ UNCHANGED <<spacy_loads, LengthsOtherVars>>

NextLengths ==
    \/ \E t \in ScriptThreads : ComputeSegmentWordLengths(t)
    \/ \E t \in ScriptThreads : SegmentsWithWordLengths(t)
    \/ \E t \in ScriptThreads : LengthsSpacyLoad(t)
    \/ \E t \in ScriptThreads : LengthsCacheStore(t)

SpecLengths == InitLengths /\ [][NextLengths]_vars

\* the 'longueur' values of a result of segments_with_word_lengths
Longueurs(entries) ==
    IF entries.kind = "raise" THEN entries
    ELSE [kind |-> "list", items |-> [i \in 1..Len(entries.items) |-> entries.items[i].longueur]]

\* the thread has returned from a call of the function
Returned(t, function) ==
    thread_pc[t].step = "returned" /\ thread_pc[t].function = function

\* C28: compute_segment_word_lengths returns the list of the 'longueur'
\* values of segments_with_word_lengths, in the same order, for every
\* text, dictionary, segmentation mode and tokenization mode: whatever a
\* call of one function returned is what the other function returns when
\* called next, and what it returned to the other thread.
C28_LengthsAreTheLongueurs ==
    \A t \in DOMAIN thread_pc :
        /\ Returned(t, "compute_segment_word_lengths") =>
               /\ lengths[t] = Longueurs(LengthsCall("segments_with_word_lengths",
                                                     model_installed, cache, spacy_loads).out)
               /\ \A u \in DOMAIN thread_pc :
                      Returned(u, "segments_with_word_lengths") =>
                          lengths[t] = Longueurs(segment_entries[u])
        /\ Returned(t, "segments_with_word_lengths") =>
               Longueurs(segment_entries[t]) =
                   LengthsCall("compute_segment_word_lengths", model_installed, cache,
                               spacy_loads).out

\* a segment kept with its length under spaCy, which the regex counts
\* otherwise, returned to a thread after the two threads, each calling one
\* of the functions, both loaded the model
C28_WitnessSpacyLengths ==
    \E t, u \in DOMAIN thread_pc :
        /\ Returned(t, "segments_with_word_lengths")
        /\ Returned(u, "compute_segment_word_lengths")
        /\ tokenization_mode = "spacy"
        /\ segment_entries[t].kind = "list"
        /\ segment_entries[t].items # <<>>
        /\ spacy_loads = 2
        /\ Longueurs(segment_entries[t]) # compute_segment_word_lengths_in(
               text, connectors, segmentation_mode, "regex", model_installed, cache,
               spacy_loads).out

\* a call served by the cached tokenizer after the model was removed
C28_WitnessCachedTokenizerWithoutModel ==
    \E t \in DOMAIN thread_pc :
        /\ Returned(t, "compute_segment_word_lengths")
        /\ tokenization_mode = "spacy"
        /\ ~model_installed
        /\ cache # 0
        /\ lengths[t].kind = "list"
        /\ lengths[t].items # <<>>

\* a text without any connector that has no token: no entry and no length
C28_WitnessBlankTextWithoutConnector ==
    \E t \in DOMAIN thread_pc :
        /\ Returned(t, "compute_segment_word_lengths")
        /\ text # <<>>
        /\ split_segments_by_connectors(text, connectors, segmentation_mode) = <<text>>
        /\ lengths[t] = [kind |-> "list", items |-> <<>>]

\* the non-blank stretches of t outside the matches, from match number i on
RECURSIVE StretchesLoop(_, _, _, _)
StretchesLoop(t, matches, i, last_end) ==
    LET stop == IF i > Len(matches) THEN Len(t) + 1 ELSE matches[i].start
        stretch == Slice(t, last_end, stop)
    IN  (IF IsBlank(stretch) THEN <<>> ELSE <<stretch>>)
            \o (IF i > Len(matches) THEN <<>>
                ELSE StretchesLoop(t, matches, i + 1, matches[i].end))

\* the matches of the connector pattern in the text without its metadata
\* lines
ConnectorMatches ==
    LET cp == _build_connector_pattern(connectors)
    IN  IF cp = NoPattern THEN <<>> ELSE FindIter(_remove_metadata_lines(text), cp, 1)

\* C29: in the mode connecteurs, when the text holds a connector match,
\* every boundary the pattern finds is recognised by _is_connector and the
\* segments are the non-blank stretches before, between and after the
\* matches, in the order of the text.
C29_NoTextLostBetweenConnectors ==
    (pc = "split" /\ segmentation_mode = "connecteurs" /\ text # <<>>
        /\ ConnectorMatches # <<>>) =>
        LET t == _remove_metadata_lines(text)
            cp == _build_connector_pattern(connectors)
        IN  /\ \A i \in 1..Len(ConnectorMatches) :
                   _is_connector(Slice(t, ConnectorMatches[i].start, ConnectorMatches[i].end),
                                 cp)
            /\ segments = StretchesLoop(t, ConnectorMatches, 1, 1)

\* the keys for which a boundary found in a text is found again by fullmatch:
\* no word character, or a word character at both ends
KeysWithWordEnds ==
    \A i \in 1..Len(connectors) :
        LET key == connectors[i]
        IN  key # <<>> =>
                \/ \A j \in 1..Len(key) : key[j] \notin WordChars
                \/ key[1] \in WordChars /\ key[Len(key)] \in WordChars

\* the property of C29 for the dictionaries of KeysWithWordEnds
C29_NoTextLostForKeysWithWordEnds ==
    KeysWithWordEnds => C29_NoTextLostBetweenConnectors

(***************************************************************************)
(* The dictionary selector over the reruns of the script: at each rerun    *)
(* the user may change the radio and the uploaded file.                     *)
(***************************************************************************)
MaxReruns == 2

SelectorFiles ==
    { [kind |-> "dict", name |-> "a.json",
       entries |-> << [key |-> JsonString(<<"a">>), value |-> JsonString(<<"A">>)] >>],
      [kind |-> "dict", name |-> "newline.json",
       entries |-> << [key |-> JsonString(<<"\n">>), value |-> JsonString(<<"A">>)] >>],
      [kind |-> "dict", name |-> "empty.json", entries |-> <<>>],
      [kind |-> "dict", name |-> "number.json",
       entries |-> << [key |-> JsonString(<<"a">>), value |-> JsonNumber] >>],
      [kind |-> "invalid_json", name |-> "broken.json"],
      [kind |-> "not_utf8", name |-> "latin1.json"] }

DefaultFile ==
    [kind |-> "dict",
     entries |-> << [key |-> JsonString(<<"b">>), value |-> JsonString(<<"B">>)] >>]

InitSelector ==
    /\ pc = "input"
    /\ uploaded_file \in SelectorFiles \cup {NoFile}
    /\ default_file = DefaultFile
    /\ dictionary_choice = "default"
    /\ custom_connectors_dict = NoDict
    /\ dictionary_label = NoLabel
    /\ selector_renders = 0
    /\ st_error = <<>>
    /\ available_connectors = NoDict
    /\ HashIdle
    /\ KSIdle
    /\ PairIdle
    /\ MWIdle
    /\ FriedIdle
    /\ SpacyIdle
    /\ AnnotIdle
    /\ LengthsIdle

\* the user changes the uploader, the script runs again
ScriptRerun ==
    /\ pc \in {"selected", "loaded"}
    /\ selector_renders < MaxReruns
    /\ uploaded_file' \in SelectorFiles \cup {NoFile}
    /\ selector_renders' = selector_renders + 1
    /\ available_connectors' = NoDict
    /\ pc' = "input"
    /\ UNCHANGED <<default_file, dictionary_choice, custom_connectors_dict, dictionary_label,
                   st_error, segVars, resVars, rowVars, ksVars, pairVars, mwVars, friedVars,
                   spacyVars, annotVars, lenVars>>

NextSelector == RenderDictionarySelector \/ LoadAvailableConnectors \/ ScriptRerun

SpecSelector == InitSelector /\ [][NextSelector]_vars

\* the upload of the last render failed
FailedUpload ==
    /\ dictionary_choice = "custom"
    /\ uploaded_file # NoFile
    /\ ~Truthy(_decode_uploaded_json(uploaded_file).ret)

\* C30: after any sequence of renders, uses_custom_dictionary() is true only
\* if the session holds a non-empty validated custom dictionary; the default
\* choice or a failed upload leaves no custom dictionary, so that
\* load_available_connectors gives the default file; the stored label names
\* the dictionary in use.
C30_CustomDictionaryOnlyWhenValidated ==
    pc \in {"selected", "loaded"} =>
        LET uses == uses_custom_dictionary(dictionary_choice, custom_connectors_dict)
        IN  /\ uses => \E f \in SelectorFiles :
                           /\ Truthy(_decode_uploaded_json(f).ret)
                           /\ custom_connectors_dict = _decode_uploaded_json(f).ret
            /\ (dictionary_choice = "default" \/ FailedUpload) =>
                   /\ custom_connectors_dict = NoDict
                   /\ pc = "loaded" => available_connectors = load_connectors(default_file)
            /\ pc = "loaded" /\ uses => available_connectors = custom_connectors_dict
            /\ IF uses
               THEN \E f \in SelectorFiles :
                        /\ dictionary_label = FileName(f)
                        /\ custom_connectors_dict = _decode_uploaded_json(f).ret
               ELSE dictionary_label = "connecteurs.json"

\* a dictionary uploaded in an earlier render is in use after its file was
\* removed from the uploader
C30_WitnessStoredDictionaryReused ==
    /\ pc = "loaded"
    /\ selector_renders >= 1
    /\ uploaded_file = NoFile
    /\ uses_custom_dictionary(dictionary_choice, custom_connectors_dict)
    /\ dictionary_label = "a.json"
    /\ available_connectors = custom_connectors_dict

\* a failed upload in the last render, with an error shown
C30_WitnessFailedUpload ==
    /\ pc = "loaded"
    /\ selector_renders = MaxReruns
    /\ FailedUpload
    /\ st_error # <<>>

====
